---- MODULE Spec2Model ----
(***************************************************************************)
(* Model of the WebSocketManager of js/websocket.js: one manager object,   *)
(* the WebSocket transports it creates, the reconnection timers it         *)
(* schedules and the listener lists it dispatches to.                      *)
(*                                                                         *)
(* A transport is a browser WebSocket.  Its readyState moves               *)
(*   CONNECTING -> OPEN -> CLOSED          (open event, then close event)  *)
(*   CONNECTING -> CLOSED                  (failed attempt: close event)   *)
(*   CONNECTING/OPEN -> CLOSING -> CLOSED  (close() called, then the close *)
(*                                          event is delivered later)      *)
(* The handlers connect() installs on a transport are closures over the    *)
(* manager, not over the transport: they read and write this.ws, whatever  *)
(* transport that is when the event is delivered.                          *)
(***************************************************************************)
EXTENDS Integers, Sequences, FiniteSets, TLC

\* ------------------------------------------------------------- bounds
MaxPending    == 2      \* transports not yet closed plus reconnection
                        \* timers pending, at one time
MaxListeners  == 1      \* listeners registered over the manager's life

\* ------------------------------------------------- program constants
maxReconnectAttempts == 5
reconnectDelay == 1000

NULL == 0
Transports == 1 .. MaxPending

\* The market identifiers the host subscribes with.
Coins == {"xyz:TSLA"}

\* A JavaScript object is its list of (property, value) pairs in insertion
\* order, which is the order JSON.stringify writes them in.
TradesSub(coin) == << <<"type", "trades">>, <<"coin", coin>> >>
L2BookSub(coin) == << <<"type", "l2Book">>, <<"coin", coin>> >>
AllMidsSub      == << <<"type", "allMids">> >>

RECURSIVE Concat(_)
Concat(ss) == IF ss = <<>> THEN <<>> ELSE Head(ss) \o Concat(Tail(ss))

\* JSON.stringify of a subscription object: the text names each property and
\* its value, in the object's order.  The text is modelled by its tokens,
\* name, value, name, value, ...
Stringify(obj) == Concat(obj)
\* JSON.parse of such a text: the object with those properties in that order.
Parse(key) == [i \in 1 .. (Len(key) \div 2) |-> <<key[2 * i - 1], key[2 * i]>>]

\* The subscription objects the host passes to unsubscribe(): the ones the
\* subscribe operations build.
SubscriptionObjects ==
    {TradesSub(c) : c \in Coins} \cup {L2BookSub(c) : c \in Coins} \cup {AllMidsSub}

\* The keys of those objects: a subscription is identified by its JSON text.
Keys == {Stringify(o) : o \in SubscriptionObjects}

VARIABLES
    ws,                 \* this.ws: the current transport, or NULL
    readyState,         \* readyState of every transport object
    subscriptions,      \* this.subscriptions: the Map's keys in insertion order
    reconnectAttempts,  \* this.reconnectAttempts
    isConnected,        \* this.isConnected
    callbacks,          \* this.callbacks: the four listener lists
    timers,             \* pending setTimeout(() => this.connect(), delay)
    last,               \* the operation or event handled by the latest step
    fx,                 \* what that handler did to the outside, in order
    desired,            \* history: the keys of the subscriptions the host has
                        \* asked for and not unsubscribed from since
    resumed,            \* history: the transport created by a connect() that
                        \* directly followed the disconnect() of an open
                        \* transport, no subscription call since; or NULL
    fills,              \* the array of fill objects the application holds and
                        \* passes to calculatePNLFromFills (state.userFills)
    pnlData,            \* what calculatePNLFromFills returned last
                        \* (state.pnlData), or NULL
    frame,              \* the locals of a call of calculatePNLFromFills that
                        \* is followed iteration by iteration, or Idle
    stateTrades         \* state.trades of js/app.js: the trade feed

prog == <<ws, readyState, subscriptions, reconnectAttempts, isConnected,
          callbacks, timers>>
\* frame when no call of calculatePNLFromFills is being followed.
Idle == [pc |-> "idle"]

\* The application state beside the manager.
app  == <<fills, pnlData, frame, stateTrades>>
vars == <<ws, readyState, subscriptions, reconnectAttempts, isConnected,
          callbacks, timers, last, fx, desired, resumed, fills, pnlData,
          frame, stateTrades>>

\* --------------------------------------------------- observable effects
\* One entry of fx.  k = "new": transport t was created; "send": frame
\* (method m, subscription s) went out on transport t; "call": listener t of
\* list m was invoked; "timer": a reconnection timer was scheduled.
Fx(k, t, m, s) == [k |-> k, t |-> t, m |-> m, s |-> s]
NewFx(t)         == Fx("new", t, "", <<>>)
SendFx(t, m, s)  == Fx("send", t, m, s)
CallFx(list, id) == Fx("call", id, list, <<>>)
TimerFx(delay)   == Fx("timer", delay, "", <<>>)

\* The step just taken: the operation called or the event delivered, the
\* transport it concerns and the subscription object it was given.  For a
\* close event and for disconnect(), s holds the readyState the transport
\* had before.  For a subscribe call, again tells that it repeats the call
\* made just before it.  For addTrade, s holds the record it was given.
Op(name, t, s) == [op |-> name, t |-> t, s |-> s, again |-> FALSE]
WasState(r) == << <<"readyState", r>> >>

\* ------------------------------------------------------------ the state
Init ==
    /\ ws = NULL
    /\ readyState = [t \in Transports |-> "NONE"]
    /\ subscriptions = <<>>
    /\ reconnectAttempts = 0
    /\ isConnected = FALSE
    /\ callbacks = [onConnect |-> <<>>, onDisconnect |-> <<>>,
                    onTrade |-> <<>>, onError |-> <<>>]
    /\ timers = 0
    /\ last = Op("init", 0, <<>>)
    /\ fx = <<>>
    /\ desired = {}
    /\ resumed = NULL
    /\ fills = <<>>
    /\ pnlData = NULL
    /\ frame = Idle
    /\ stateTrades = <<>>

\* A transport object that is closed receives no further event.  One that
\* this.ws no longer refers to is garbage; its slot "NONE" is free for the
\* next new WebSocket().  A closed transport this.ws still refers to stays
\* "CLOSED", because connect(), send() and disconnect() read it.
Release(rs, cur) ==
    [t \in Transports |-> IF rs[t] = "CLOSED" /\ t # cur THEN "NONE" ELSE rs[t]]

FreeSlots(rs) == {t \in Transports : rs[t] = "NONE"}
NewTransport(rs) == CHOOSE t \in FreeSlots(rs) : \A u \in FreeSlots(rs) : t <= u
Live(rs) == {t \in Transports : rs[t] \in {"CONNECTING", "OPEN", "CLOSING"}}

\* ------------------------------------------------------------- send()
\* The frames send(message) puts on the wire when this.ws is cur and the
\* transports are in the states rs: one frame on cur when it is OPEN,
\* otherwise nothing (the message is dropped with a warning).
Send(cur, rs, m, s) ==
    IF cur # NULL /\ rs[cur] = "OPEN" THEN <<SendFx(cur, m, s)>> ELSE <<>>

\* (a dispatch that tells of a disconnection only a manager that was
\* connected)
NotifyIfConnected(list) ==
    IF list = "onDisconnect" /\ ~isConnected
    THEN <<>>
    ELSE [i \in 1 .. Len(callbacks[list]) |-> CallFx(list, callbacks[list][i])]

\* (a dispatch that runs through the list from its end)
NotifyReversed(list) ==
    [i \in 1 .. Len(callbacks[list]) |->
        CallFx(list, callbacks[list][Len(callbacks[list]) + 1 - i])]

\* callbacks[list].forEach(cb => cb(...)): every listener, in list order.
Notify(list) ==
    [i \in 1 .. Len(callbacks[list]) |-> CallFx(list, callbacks[list][i])]

\* ----------------------------------------------------------- connect()
\* (a connect() whose guard tests the wrong readyState)
AlreadyConnecting == ws # NULL /\ readyState[ws] = "CONNECTING"

\* The guard of connect(): the current transport exists and is OPEN.
AlreadyOpen == ws # NULL /\ readyState[ws] = "OPEN"

\* connect(), called by the host or by a reconnection timer, with n timers
\* pending besides.  A call that creates a transport waits while MaxPending
\* transports and timers are outstanding.
ConnectBody(n) ==
    IF AlreadyOpen
    THEN /\ UNCHANGED <<ws, readyState>>
         /\ fx' = <<>>
    ELSE LET rs == Release(readyState, NULL)
             t  == NewTransport(rs)
         IN  /\ Cardinality(Live(readyState)) + n < MaxPending
             /\ ws' = t
             /\ readyState' = [rs EXCEPT ![t] = "CONNECTING"]
             /\ fx' = <<NewFx(t)>>

Connect ==
    /\ UNCHANGED app
    /\ ConnectBody(timers)
    /\ last' = Op("connect", 0, <<>>)
    /\ resumed' = IF last.op = "disconnect" /\ last.s = WasState("OPEN") /\ fx' # <<>>
                  THEN ws' ELSE resumed
    /\ UNCHANGED <<subscriptions, reconnectAttempts, isConnected, callbacks, timers,
                   desired>>

\* (a timer that runs out without calling connect())
TimerLapses ==
    /\ UNCHANGED app
    /\ timers > 0
    /\ timers' = timers - 1
    /\ fx' = <<>>
    /\ last' = Op("lapse", 0, <<>>)
    /\ UNCHANGED <<ws, readyState, subscriptions, reconnectAttempts, isConnected,
                   callbacks, desired, resumed>>

\* A pending reconnection timer fires: () => this.connect().
TimerFire ==
    /\ UNCHANGED app
    /\ timers > 0
    /\ timers' = timers - 1
    /\ ConnectBody(timers - 1)
    /\ last' = Op("timer", 0, <<>>)
    /\ UNCHANGED <<subscriptions, reconnectAttempts, isConnected, callbacks,
                   desired, resumed>>

\* ------------------------------------------------------------- onopen
\* subscriptions.forEach((_, sub) => send({subscribe, JSON.parse(sub)})),
\* run when this.ws is cur and the transports are in the states rs.
Replay(cur, rs) ==
    Concat([i \in 1 .. Len(subscriptions) |->
                Send(cur, rs, "subscribe", Parse(subscriptions[i]))])

\* The open event of transport t: the browser has set t OPEN, then onopen
\* runs.  The handler sends on this.ws, which need not be t.
TransportOpen(t) ==
    /\ UNCHANGED app
    /\ readyState[t] = "CONNECTING"
    /\ readyState' = [readyState EXCEPT ![t] = "OPEN"]
    /\ isConnected' = TRUE
    /\ reconnectAttempts' = 0
    /\ fx' = Replay(ws, readyState') \o Notify("onConnect")
    /\ last' = Op("open", t, <<>>)
    /\ UNCHANGED <<ws, subscriptions, callbacks, timers, desired, resumed>>

\* ------------------------------------------------------------ onclose
\* (an onclose that allows one reconnection too many)
RetriesLeftInclusive(n) == n <= maxReconnectAttempts

\* Math.pow(b, n) for a whole n >= 0.
RECURSIVE Pow(_, _)
Pow(b, n) == IF n = 0 THEN 1 ELSE b * Pow(b, n - 1)

\* (a backoff that doubles once too often)
DelayDoubledFirst(n) == reconnectDelay * Pow(2, n)

\* The delay of the reconnection scheduled when the counter has become n.
Delay(n) == reconnectDelay * Pow(2, n - 1)

\* (an onclose that schedules a reconnection whatever the counter holds)
RetriesLeftAlways(n) == TRUE

\* The test that decides whether onclose schedules a reconnection.
RetriesLeft(n) == n < maxReconnectAttempts

\* The close event of transport t, whatever closed it: the server, the
\* network, a failed attempt, or close() called by disconnect().
TransportClose(t) ==
    /\ UNCHANGED app
    /\ readyState[t] \in {"CONNECTING", "OPEN", "CLOSING"}
    /\ readyState' = Release([readyState EXCEPT ![t] = "CLOSED"], ws)
    /\ isConnected' = FALSE
    /\ IF RetriesLeft(reconnectAttempts)
       THEN /\ reconnectAttempts' = reconnectAttempts + 1
            /\ timers' = timers + 1
            /\ fx' = Notify("onDisconnect") \o <<TimerFx(Delay(reconnectAttempts'))>>
       ELSE /\ UNCHANGED <<reconnectAttempts, timers>>
            /\ fx' = Notify("onDisconnect")
    /\ last' = Op("close", t, WasState(readyState[t]))
    /\ resumed' = IF resumed = t THEN NULL ELSE resumed
    /\ UNCHANGED <<ws, subscriptions, callbacks, desired>>

\* --------------------------------------------------------- disconnect()
\* ws.close(): a transport that is CONNECTING or OPEN starts closing; its
\* close event comes later.  On a transport already closing or closed it
\* does nothing.
CloseCall(rs, t) ==
    IF rs[t] \in {"CONNECTING", "OPEN"} THEN [rs EXCEPT ![t] = "CLOSING"] ELSE rs

Disconnect ==
    /\ UNCHANGED app
    /\ IF ws # NULL
       THEN /\ readyState' = Release(CloseCall(readyState, ws), NULL)
            /\ ws' = NULL
            /\ isConnected' = FALSE
       ELSE UNCHANGED <<ws, readyState, isConnected>>
    /\ fx' = <<>>
    /\ last' = Op("disconnect", ws, IF ws # NULL THEN WasState(readyState[ws]) ELSE <<>>)
    /\ resumed' = NULL
    /\ UNCHANGED <<subscriptions, reconnectAttempts, callbacks, timers, desired>>

\* ----------------------------------------------------------- getStatus()
\* return this.isConnected
getStatus == isConnected

\* ------------------------------------------------------ subscriptions
Repeated(name, sub) ==
    [op |-> name, t |-> 0, s |-> sub, again |-> (last.op = name /\ last.s = sub)]

HasIn(subs, key) == \E i \in 1 .. Len(subs) : subs[i] = key
Has(key) == HasIn(subscriptions, key)
\* Map.delete(key): the other keys keep their order.
Delete(key) == SelectSeq(subscriptions, LAMBDA k : k # key)

\* subscribeTrades(coin) and subscribeL2Book(coin): the same body on the
\* subscription object sub each of them builds.
SubscribeKeyed(name, sub) ==
    /\ UNCHANGED app
    /\ IF ~Has(Stringify(sub))
       THEN /\ subscriptions' = Append(subscriptions, Stringify(sub))
            /\ fx' = Send(ws, readyState, "subscribe", sub)
       ELSE /\ UNCHANGED subscriptions
            /\ fx' = <<>>
    /\ last' = Repeated(name, sub)
    /\ desired' = desired \cup {Stringify(sub)}
    /\ resumed' = NULL
    /\ UNCHANGED <<ws, readyState, reconnectAttempts, isConnected, callbacks, timers>>

SubscribeTrades(coin) == SubscribeKeyed("subscribeTrades", TradesSub(coin))
SubscribeL2Book(coin) == SubscribeKeyed("subscribeL2Book", L2BookSub(coin))

\* subscribeAllMids(): sends, and records nothing in this.subscriptions.
SubscribeAllMids ==
    /\ UNCHANGED app
    /\ fx' = Send(ws, readyState, "subscribe", AllMidsSub)
    /\ last' = Repeated("subscribeAllMids", AllMidsSub)
    /\ desired' = desired \cup {Stringify(AllMidsSub)}
    /\ resumed' = NULL
    /\ UNCHANGED prog

\* unsubscribe(subscription), for any subscription object the host passes.
Unsubscribe(sub) ==
    /\ UNCHANGED app
    /\ subscriptions' = Delete(Stringify(sub))
    /\ fx' = Send(ws, readyState, "unsubscribe", sub)
    /\ last' = Op("unsubscribe", 0, sub)
    /\ desired' = desired \ {Stringify(sub)}
    /\ resumed' = NULL
    /\ UNCHANGED <<ws, readyState, reconnectAttempts, isConnected, callbacks, timers>>

\* ---------------------------------------------- listener registration
Lists == {"onConnect", "onDisconnect", "onTrade", "onError"}
Registered == Len(callbacks.onConnect) + Len(callbacks.onDisconnect)
              + Len(callbacks.onTrade) + Len(callbacks.onError)

\* onConnect(cb), onDisconnect(cb), onTrade(cb), onError(cb): push.  A
\* listener is named by its rank among all registrations.
Register(list) ==
    /\ UNCHANGED app
    /\ Registered < MaxListeners
    /\ callbacks' = [callbacks EXCEPT ![list] = Append(@, Registered + 1)]
    /\ fx' = <<>>
    /\ last' = Op(list, Registered + 1, <<>>)
    /\ UNCHANGED <<ws, readyState, subscriptions, reconnectAttempts, isConnected, timers,
                   desired, resumed>>

\* ------------------------------------------------------------ the system
Next ==
    \/ Connect
    \/ TimerFire
    \/ Disconnect
    \/ \E t \in Transports : TransportOpen(t)
    \/ \E t \in Transports : TransportClose(t)
    \/ \E c \in Coins : SubscribeTrades(c)
    \/ \E c \in Coins : SubscribeL2Book(c)
    \/ SubscribeAllMids
    \/ \E s \in SubscriptionObjects : Unsubscribe(s)
    \/ \E l \in Lists : Register(l)

Spec == Init /\ [][Next]_vars

\* The manager's connection life alone: connect(), disconnect(), the open
\* and close events and the reconnection timers.  A timer that is pending
\* fires in the end.
RetryNext ==
    \/ Connect
    \/ TimerFire
    \/ Disconnect
    \/ \E t \in Transports : TransportOpen(t)
    \/ \E t \in Transports : TransportClose(t)

RetrySpec == Init /\ [][RetryNext]_vars /\ WF_vars(TimerFire)

\* ===================================================================
\* Inbound events: onmessage, handleMessage, onerror, and the listeners
\* the application registers for them
\* ===================================================================
MaxBatch    == 2      \* trades carried by one trades message
MaxHandlers == 2      \* listeners registered, where dispatch is examined

\* A value of a message's data property: an array of objects, or one object.
JsArray(items) == [isArray |-> TRUE, v |-> items]
JsObject(obj)  == [isArray |-> FALSE, v |-> obj]

\* The Event object an error event carries.
ErrorEvent == << <<"type", "error">> >>

\* A trade record as the venue sends it, reduced to the properties that tell
\* records apart.
Trade(coin, tid) == << <<"coin", coin>>, <<"tid", tid>> >>
Trades == {Trade("xyz:TSLA", "1"), Trade("BTC", "2")}
Batches == UNION {[1 .. n -> Trades] : n \in 0 .. MaxBatch}

\* An inbound message object: {channel, data}.
Message(channel, data) == << <<"channel", channel>>, <<"data", data>> >>
OtherChannels == {"subscriptionResponse", "allMids", "l2Book", "pong"}
Inbound ==
    {Message("trades", JsArray(b)) : b \in Batches}
    \cup {Message("trades", JsObject(t)) : t \in Trades}
    \cup {Message(c, JsObject(<<>>)) : c \in OtherChannels}

\* A frame cut short in transit: its text lacks the last token.
Truncated(text) == SubSeq(text, 1, Len(text) - 1)
\* event.data of the message events: the JSON text of a message, whole or
\* cut short.
Payloads ==
    {Stringify(m) : m \in Inbound} \cup {Truncated(Stringify(m)) : m \in Inbound}

\* JSON.parse(text) returns an object when every property name in the text
\* has its value, and throws a SyntaxError otherwise.
Decodable(text) == Len(text) % 2 = 0

\* obj[name]: the value of the property, or undefined.
Get(obj, name) ==
    IF \E i \in 1 .. Len(obj) : obj[i][1] = name
    THEN obj[CHOOSE i \in 1 .. Len(obj) : obj[i][1] = name][2]
    ELSE "undefined"

\* console.error(m, ...): an entry of fx with k = "error".
ErrorFx(m) == Fx("error", 0, m, <<>>)

\* (a dispatch that calls every listener twice)
NotifyEachTwice(list, arg) ==
    [i \in 1 .. 2 * Len(callbacks[list]) |->
        Fx("call", callbacks[list][(i + 1) \div 2], list, arg)]

\* callbacks[list].forEach(cb => cb(arg)): every listener, in list order,
\* each given arg.
NotifyWith(list, arg) ==
    [i \in 1 .. Len(callbacks[list]) |-> Fx("call", callbacks[list][i], list, arg)]

\* if (this.callbacks[list]) this.callbacks[list].forEach(cb => cb(arg)):
\* the constructor defines the four lists of Lists and no other.
NotifyIfDefined(list, arg) ==
    IF list \in DOMAIN callbacks THEN NotifyWith(list, arg) ELSE <<>>

\* (a handleMessage that hands every message with data to the onTrade
\* listeners, whatever its channel)
HandleAnyChannel(data) == NotifyWith("onTrade", Get(data, "data"))

\* handleMessage(data): the listener calls it makes.
HandleMessage(data) ==
    LET channel == Get(data, "channel") IN
    IF channel = "subscriptionResponse"
    THEN <<>>
    ELSE (IF channel = "trades" THEN NotifyWith("onTrade", Get(data, "data")) ELSE <<>>)
         \o (IF channel = "allMids" THEN NotifyIfDefined("onMids", Get(data, "data")) ELSE <<>>)
         \o (IF channel = "l2Book" THEN NotifyIfDefined("onL2Book", Get(data, "data")) ELSE <<>>)

\* (an onmessage that reports a payload it cannot parse to the onError
\* listeners and gives the connection up)
OnMessageSurfacing(t, text) ==
    /\ UNCHANGED app
    /\ readyState[t] = "OPEN"
    /\ fx' = IF Decodable(text)
             THEN HandleMessage(Parse(text))
             ELSE <<ErrorFx("Failed to parse WebSocket message:")>>
                  \o NotifyWith("onError", ErrorEvent)
    /\ isConnected' = (isConnected /\ Decodable(text))
    /\ last' = Op("message", t, text)
    /\ UNCHANGED <<ws, readyState, subscriptions, reconnectAttempts, callbacks, timers,
                   desired, resumed>>

\* The message event of transport t, which the browser delivers while t is
\* OPEN: onmessage parses event.data and hands the object to handleMessage;
\* what JSON.parse throws is caught and logged.
OnMessage(t, text) ==
    /\ UNCHANGED app
    /\ readyState[t] = "OPEN"
    /\ fx' = IF Decodable(text)
             THEN HandleMessage(Parse(text))
             ELSE <<ErrorFx("Failed to parse WebSocket message:")>>
    /\ last' = Op("message", t, text)
    /\ UNCHANGED <<prog, desired, resumed>>

\* (an onerror that does the work of onclose as well)
OnErrorClosing(t) ==
    /\ UNCHANGED app
    /\ readyState[t] \in {"CONNECTING", "OPEN", "CLOSING"}
    /\ isConnected' = FALSE
    /\ fx' = <<ErrorFx("WebSocket error:")>> \o NotifyWith("onError", ErrorEvent)
    /\ last' = Op("error", t, ErrorEvent)
    /\ UNCHANGED <<ws, readyState, subscriptions, reconnectAttempts, callbacks, timers,
                   desired, resumed>>

\* The error event of transport t: onerror logs it and tells the onError
\* listeners.  The browser delivers the close event of t afterwards.
OnError(t) ==
    /\ UNCHANGED app
    /\ readyState[t] \in {"CONNECTING", "OPEN", "CLOSING"}
    /\ fx' = <<ErrorFx("WebSocket error:")>> \o NotifyWith("onError", ErrorEvent)
    /\ last' = Op("error", t, ErrorEvent)
    /\ UNCHANGED <<prog, desired, resumed>>

\* The onTrade listener connectWebSocket() registers: the records it hands
\* to addTrade, in order, when it is called with trades.
OnTradeListener(trades) == IF trades.isArray THEN trades.v ELSE <<trades.v>>

\* onConnect(cb), onDisconnect(cb), onTrade(cb), onError(cb), as Register,
\* with room for MaxHandlers listeners.
RegisterHandler(list) ==
    /\ UNCHANGED app
    /\ Registered < MaxHandlers
    /\ callbacks' = [callbacks EXCEPT ![list] = Append(@, Registered + 1)]
    /\ fx' = <<>>
    /\ last' = Op(list, Registered + 1, <<>>)
    /\ UNCHANGED <<ws, readyState, subscriptions, reconnectAttempts, isConnected, timers,
                   desired, resumed>>

\* connectWebSocket() calls connect() once, when the page starts; the
\* application calls neither connect() again nor disconnect().
Startup ==
    /\ ws = NULL
    /\ Connect

\* The manager as the application drives it, with its inbound events and
\* the listeners registered on it.
DispatchNext ==
    \/ Startup
    \/ TimerFire
    \/ \E t \in Transports : TransportOpen(t)
    \/ \E t \in Transports : TransportClose(t)
    \/ \E t \in Transports : \E text \in Payloads : OnMessage(t, text)
    \/ \E t \in Transports : OnError(t)
    \/ \E c \in Coins : SubscribeTrades(c)
    \/ \E l \in Lists : RegisterHandler(l)

DispatchSpec == Init /\ [][DispatchNext]_vars

\* The manager's connection life, as RetryNext, with listeners registered
\* for its connections and disconnections at any time.
ConnectionLists == {"onConnect", "onDisconnect"}

ListenNext ==
    \/ Connect
    \/ TimerFire
    \/ Disconnect
    \/ \E t \in Transports : TransportOpen(t)
    \/ \E t \in Transports : TransportClose(t)
    \/ \E l \in ConnectionLists : RegisterHandler(l)

ListenSpec == Init /\ [][ListenNext]_vars

\* ===================================================================
\* subscribeAllTrades() and the market registry of js/api.js
\* ===================================================================
MaxMarkets == 2       \* markets in the registry at one time

\* Market names the venue lists: one of the fallback set and two others.
Markets == {"xyz:TSLA", "xyz:SILVER", "xyz:EUR"}

\* ALL_XYZ_MARKETS is a Set: its names in insertion order, none twice.
\* getAllXyzMarkets() returns them as an array in that order.  Registries
\* are the contents updateMarketCategories() can have given it.
Registries ==
    {r \in UNION {[1 .. n -> Markets] : n \in 0 .. MaxMarkets} :
        \A i, j \in 1 .. Len(r) : r[i] = r[j] => i = j}

\* The markets subscribeAllTrades() uses while the registry is empty.
Fallback == <<"xyz:XYZ100", "xyz:TSLA", "xyz:NVDA", "xyz:AAPL", "xyz:GOLD">>

\* (a subscribeAllTrades without the fallback branch)
RegistryOnly(coins) == coins

\* The markets subscribeAllTrades() goes through when getAllXyzMarkets()
\* has returned coins.
Chosen(coins) == IF Len(coins) = 0 THEN Fallback ELSE coins

\* this.subscriptions after subscribeTrades(coin) has run for every coin of
\* coins in turn, starting from subs.
RECURSIVE AddAll(_, _)
AddAll(subs, coins) ==
    IF coins = <<>> THEN subs
    ELSE LET key == Stringify(TradesSub(Head(coins)))
         IN  AddAll(IF HasIn(subs, key) THEN subs ELSE Append(subs, key), Tail(coins))

\* The frames those calls send: one for each coin that was not in the Map
\* when its turn came, if the current transport is open.
RECURSIVE SendAll(_, _)
SendAll(subs, coins) ==
    IF coins = <<>> THEN <<>>
    ELSE LET sub == TradesSub(Head(coins))
             key == Stringify(sub)
         IN  IF HasIn(subs, key)
             THEN SendAll(subs, Tail(coins))
             ELSE Send(ws, readyState, "subscribe", sub)
                  \o SendAll(Append(subs, key), Tail(coins))

\* subscribeAllTrades(), called while the registry holds coins.
SubscribeAllTrades(coins) ==
    /\ UNCHANGED app
    /\ subscriptions' = AddAll(subscriptions, Chosen(coins))
    /\ fx' = SendAll(subscriptions, Chosen(coins))
    /\ last' = Op("subscribeAllTrades", 0, coins)
    /\ desired' = desired \cup {Stringify(TradesSub(Chosen(coins)[i])) : i \in 1 .. Len(Chosen(coins))}
    /\ resumed' = NULL
    /\ UNCHANGED <<ws, readyState, reconnectAttempts, isConnected, callbacks, timers>>

\* The manager as the application drives it, subscribing to the trades of
\* all markets and dropping subscriptions.
MarketNext ==
    \/ Startup
    \/ TimerFire
    \/ \E t \in Transports : TransportOpen(t)
    \/ \E t \in Transports : TransportClose(t)
    \/ \E r \in Registries : SubscribeAllTrades(r)
    \/ \E s \in SubscriptionObjects : Unsubscribe(s)

MarketSpec == Init /\ [][MarketNext]_vars

\* ===================================================================
\* calculatePNLFromFills of js/api.js
\* ===================================================================
MaxFills == 3         \* fills in the array
SigBits  == 5         \* binary digits a number keeps (53 in the doubles of
                      \* JavaScript): every result is rounded to that many

\* ------------------------------------------------------------ numbers
\* NaN, apart from every number the bounds allow.
NaN == -1000000

Abs(x) == IF x < 0 THEN -x ELSE x
RECURSIVE BitLength(_)
BitLength(n) == IF n = 0 THEN 0 ELSE 1 + BitLength(n \div 2)

\* The number nearest to x among those with SigBits significant binary
\* digits; of two equally near, the one whose last kept digit is 0.
RoundToBits(x) ==
    LET a     == Abs(x)
        drop  == BitLength(a) - SigBits
        unit  == Pow(2, drop)
        q     == a \div unit
        r     == a % unit
        up    == 2 * r > unit \/ (2 * r = unit /\ q % 2 = 1)
        m     == (IF up THEN q + 1 ELSE q) * unit
    IN  IF drop <= 0 THEN x ELSE IF x < 0 THEN -m ELSE m

\* a + b, a - b, a * b, a > b, a <= b and Math.min(a, b) on numbers.
Add(a, b) == IF a = NaN \/ b = NaN THEN NaN ELSE RoundToBits(a + b)
Sub(a, b) == IF a = NaN \/ b = NaN THEN NaN ELSE RoundToBits(a - b)
Mul(a, b) == IF a = NaN \/ b = NaN THEN NaN ELSE RoundToBits(a * b)
Gt(a, b) == a # NaN /\ b # NaN /\ a > b
Le(a, b) == a # NaN /\ b # NaN /\ a <= b

\* (a match for all that is left of the sell, whatever the lot holds)
WholeRemainder(a, b) == a

MathMin(a, b) == IF a = NaN \/ b = NaN THEN NaN ELSE IF a < b THEN a ELSE b

\* f[1] + ... + f[n], exactly, and as the program adds: from 0, in order,
\* each sum rounded.
RECURSIVE Sum(_, _)
Sum(f, n) == IF n = 0 THEN 0 ELSE Sum(f, n - 1) + f[n]
RECURSIVE Accumulated(_, _)
Accumulated(f, n) == IF n = 0 THEN 0 ELSE Add(Accumulated(f, n - 1), f[n])

\* A numeric string is its characters.  The venue writes px and sz as decimal
\* numerals; amounts are whole numbers of the smallest unit.
DigitChars == <<"0", "1", "2", "3", "4", "5", "6", "7", "8", "9">>
IsDigit(c) == \E i \in 1 .. 10 : DigitChars[i] = c
DigitValue(c) == (CHOOSE i \in 1 .. 10 : DigitChars[i] = c) - 1
RECURSIVE Digits(_)
Digits(n) ==
    IF n < 10 THEN <<DigitChars[n + 1]>>
    ELSE Digits(n \div 10) \o <<DigitChars[(n % 10) + 1]>>
Numeral(n) == IF n < 0 THEN <<"-">> \o Digits(-n) ELSE Digits(n)

\* parseFloat(text): the number written by the sign and the longest run of
\* digits text starts with, NaN when there is no digit there.
RECURSIVE LeadingDigits(_)
LeadingDigits(text) ==
    IF text = <<>> \/ ~IsDigit(Head(text)) THEN <<>>
    ELSE <<Head(text)>> \o LeadingDigits(Tail(text))
RECURSIVE ValueOf(_, _)
ValueOf(acc, ds) ==
    IF ds = <<>> THEN acc ELSE ValueOf(10 * acc + DigitValue(Head(ds)), Tail(ds))
ParseFloat(text) ==
    LET neg == text # <<>> /\ Head(text) = "-"
        ds  == LeadingDigits(IF neg THEN Tail(text) ELSE text)
    IN  IF ds = <<>> THEN NaN
        ELSE RoundToBits(IF neg THEN -ValueOf(0, ds) ELSE ValueOf(0, ds))

\* -------------------------------------------------------------- fills
\* A fill object whose px and sz are the texts given.
RawFill(coin, side, px, sz) ==
    << <<"coin", coin>>, <<"side", side>>, <<"px", px>>, <<"sz", sz>> >>
\* A fill object of the venue: {coin, side, px, sz}.
Fill(coin, side, px, sz) ==
    << <<"coin", coin>>, <<"side", side>>, <<"px", Numeral(px)>>, <<"sz", Numeral(sz)>> >>

\* coin.startsWith('xyz:'), on the names that occur.
XyzNames == {"xyz:TSLA", "xyz:GOLD"}
StartsWithXyz(coin) == coin \in XyzNames
\* side === 'B' || side === 'buy'
IsBuySide(side) == side = "B" \/ side = "buy"

\* The fill objects of the arrays examined: buys and sells of one market with
\* positive, zero and negative sizes, a buy and a sell of a second market,
\* and a fill of another namespace.
Sizes == {-1, 0, 1, 2}
FillObjects ==
    {Fill("xyz:TSLA", "B", px, sz) : px \in {10, 20}, sz \in Sizes}
    \cup {Fill("xyz:TSLA", "A", 15, sz) : sz \in Sizes}
    \cup {Fill("xyz:GOLD", "buy", 10, 1), Fill("xyz:GOLD", "sell", 15, 1)}
    \cup {Fill("BTC", "B", 10, 1)}
\* Two arrays more: a buy of 5 at 10 sold in two parts at 12.
PartialSales ==
    {<<Fill("xyz:TSLA", "B", 10, 5), Fill("xyz:TSLA", "A", 12, 2)>>,
     <<Fill("xyz:TSLA", "B", 10, 5), Fill("xyz:TSLA", "A", 12, 2),
       Fill("xyz:TSLA", "A", 12, 3)>>}
FillArrays == UNION {[1 .. n -> FillObjects] : n \in 0 .. MaxFills} \cup PartialSales

\* ----------------------------------------------- the first pass: 232-259
\* pnlByAsset is an object: its entries in the order the keys were added.
\* (a ledger kept from one call to the next)
KeptLedger == IF last.op = "calculatePNLFromFills" THEN pnlData.byAsset ELSE <<>>

\* const pnlByAsset = {}
EmptyLedger == <<>>

NewEntry(asset) ==
    [asset |-> asset, buys |-> <<>>, sells |-> <<>>, realizedPnl |-> 0,
     volume |-> 0, trades |-> 0]
\* (a ledger with one entry, the first asset's, for every fill)
FindFirst(by, asset) == IF by = <<>> THEN 0 ELSE 1

\* The place of asset's entry in by, 0 when it has none.
Find(by, asset) ==
    IF \E i \in 1 .. Len(by) : by[i].asset = asset
    THEN CHOOSE i \in 1 .. Len(by) : by[i].asset = asset
    ELSE 0

\* (a volume that counts every fill as positive)
AbsNotional(price, size) == Abs(Mul(price, size))

\* const value = price * size
Notional(price, size) == Mul(price, size)

\* The body of xyzFills.forEach, on the ledger and totals acc.
Ingest(acc, fill) ==
    LET asset == Get(fill, "coin")
        price == ParseFloat(Get(fill, "px"))
        size  == ParseFloat(Get(fill, "sz"))
        isBuy == IsBuySide(Get(fill, "side"))
        value == Notional(price, size)
        lot   == [price |-> price, size |-> size, value |-> value]
        by    == IF Find(acc.byAsset, asset) = 0
                 THEN Append(acc.byAsset, NewEntry(asset))
                 ELSE acc.byAsset
        i     == Find(by, asset)
    IN  [byAsset |-> [by EXCEPT ![i] =
                        [@ EXCEPT !.volume = Add(@, value),
                                  !.trades = Add(@, 1),
                                  !.buys   = IF isBuy THEN Append(@, lot) ELSE @,
                                  !.sells  = IF isBuy THEN @ ELSE Append(@, lot)]],
         totalVolume |-> Add(acc.totalVolume, value),
         totalTrades |-> Add(acc.totalTrades, 1)]

RECURSIVE IngestAll(_, _)
IngestAll(acc, fs) ==
    IF fs = <<>> THEN acc ELSE IngestAll(Ingest(acc, Head(fs)), Tail(fs))

\* ---------------------------------------------- the second pass: 262-290
\* The matching of one asset.  lots are the lot objects of data.buys, which
\* the copy [...data.buys] shares; queue is that copy, as the places of its
\* lots in data.buys; pnl is realizedPnl; log (history) lists the matches
\* made: which sell met which lot, and the size matched.
Matched(sell, lot, matchSize) == [sell |-> sell, lot |-> lot, matchSize |-> matchSize]

\* (a matching that takes the cheapest lot first)
CheapestLot(st) ==
    CHOOSE i \in {st.queue[k] : k \in 1 .. Len(st.queue)} :
        \A k \in 1 .. Len(st.queue) :
            \/ st.lots[i].price < st.lots[st.queue[k]].price
            \/ (st.lots[i].price = st.lots[st.queue[k]].price /\ i <= st.queue[k])

\* buys[0]
FrontLot(st) == Head(st.queue)

\* (a lot that leaves the queue once matched, whatever is left of it)
AnyLeft(left) == TRUE

\* buy.size <= 0
Exhausted(left) == Le(left, 0)

\* remainingSellSize > 0 && buys.length > 0
Matching(st, remaining) == Gt(remaining, 0) /\ st.queue # <<>>

\* The body of the while loop, once, for the k-th sell of the asset with
\* remainingSellSize at remaining: the matching and the remainder after it.
MatchOnce(st, k, sell, remaining) ==
    LET i         == FrontLot(st)
        buy       == st.lots[i]
        matchSize == MathMin(remaining, buy.size)
        gain      == Mul(Sub(sell.price, buy.price), matchSize)
        left      == Sub(buy.size, matchSize)
    IN  [st |-> [lots  |-> [st.lots EXCEPT ![i].size = left],
                 queue |-> IF Exhausted(left) THEN Tail(st.queue) ELSE st.queue,
                 pnl   |-> Add(st.pnl, gain),
                 log   |-> Append(st.log, Matched(k, i, matchSize))],
         remaining |-> Sub(remaining, matchSize)]

\* The while loop of one sell, the k-th of the asset, with remainingSellSize
\* at remaining.
RECURSIVE MatchSell(_, _, _, _)
MatchSell(st, k, sell, remaining) ==
    IF Matching(st, remaining)
    THEN LET once == MatchOnce(st, k, sell, remaining)
         IN  MatchSell(once.st, k, sell, once.remaining)
    ELSE st

\* (a matching that books what no lot covers of a sell as sold from nothing:
\* the whole price is gain)
RECURSIVE MatchSellsShort(_, _, _)
MatchSellsShort(st, sells, k) ==
    IF k > Len(sells) THEN st
    ELSE LET after == MatchSell(st, k, sells[k], sells[k].size)
             taken == Sum([m \in 1 .. Len(after.log) |->
                             IF after.log[m].sell = k THEN after.log[m].matchSize
                             ELSE 0], Len(after.log))
             short == Mul(sells[k].price, Sub(sells[k].size, taken))
         IN  MatchSellsShort([after EXCEPT !.pnl = Add(@, short)], sells, k + 1)

\* sells.forEach, from the k-th sell on.
RECURSIVE MatchSells(_, _, _)
MatchSells(st, sells, k) ==
    IF k > Len(sells) THEN st
    ELSE MatchSells(MatchSell(st, k, sells[k], sells[k].size), sells, k + 1)

\* (a matching that starts from what the buys cost)
MatchAssetAtCost(data) ==
    MatchSells([lots |-> data.buys, queue |-> [j \in 1 .. Len(data.buys) |-> j],
                pnl |-> Accumulated([j \in 1 .. Len(data.buys) |-> -data.buys[j].value],
                                    Len(data.buys)),
                log |-> <<>>],
               data.sells, 1)

\* The body of Object.keys(pnlByAsset).forEach for the entry data.
MatchAsset(data) ==
    MatchSells([lots |-> data.buys, queue |-> [j \in 1 .. Len(data.buys) |-> j],
                pnl |-> 0, log |-> <<>>],
               data.sells, 1)

\* (a matching with one queue for all assets: the sells of each asset meet
\* the buys of every asset, in the order of the entries)
RECURSIVE JoinBuys(_, _)
JoinBuys(by, i) == IF i > Len(by) THEN <<>> ELSE by[i].buys \o JoinBuys(by, i + 1)
RECURSIVE MatchAllPooled(_, _, _)
MatchAllPooled(by, i, total) ==
    IF i > Len(by) THEN [byAsset |-> by, totalRealizedPnl |-> total]
    ELSE LET pool == JoinBuys(by, 1)
             st   == MatchSells([lots |-> pool, queue |-> [j \in 1 .. Len(pool) |-> j],
                                 pnl |-> 0, log |-> <<>>], by[i].sells, 1)
         IN  MatchAllPooled([by EXCEPT ![i] = [@ EXCEPT !.realizedPnl = st.pnl]],
                            i + 1, Add(total, st.pnl))

\* Object.keys(pnlByAsset).forEach, from the i-th entry on, with
\* totalRealizedPnl at total.
RECURSIVE MatchAll(_, _, _)
MatchAll(by, i, total) ==
    IF i > Len(by) THEN [byAsset |-> by, totalRealizedPnl |-> total]
    ELSE LET st == MatchAsset(by[i])
         IN  MatchAll([by EXCEPT ![i] = [@ EXCEPT !.buys = st.lots,
                                                  !.realizedPnl = st.pnl]],
                      i + 1, Add(total, st.pnl))

\* (a function for which a sell that no buy of its asset precedes in the
\* array does not exist)
RECURSIVE AfterFirstBuy(_, _)
AfterFirstBuy(fs, bought) ==
    IF fs = <<>> THEN <<>>
    ELSE LET coin  == Get(Head(fs), "coin")
             isBuy == IsBuySide(Get(Head(fs), "side"))
         IN  (IF isBuy \/ coin \in bought THEN <<Head(fs)>> ELSE <<>>)
             \o AfterFirstBuy(Tail(fs), IF isBuy THEN bought \cup {coin} ELSE bought)
CalculateInTimeOrder(fs) ==
    LET xyzFills == SelectSeq(AfterFirstBuy(fs, {}),
                              LAMBDA f : StartsWithXyz(Get(f, "coin")))
        first    == IngestAll([byAsset |-> EmptyLedger, totalVolume |-> 0,
                               totalTrades |-> 0], xyzFills)
        second   == MatchAll(first.byAsset, 1, 0)
    IN  [byAsset          |-> second.byAsset,
         totalRealizedPnl |-> second.totalRealizedPnl,
         totalVolume      |-> first.totalVolume,
         totalTrades      |-> first.totalTrades]

\* calculatePNLFromFills(fills)
CalculatePNLFromFills(fs) ==
    LET xyzFills == SelectSeq(fs, LAMBDA f : StartsWithXyz(Get(f, "coin")))
        first    == IngestAll([byAsset |-> EmptyLedger, totalVolume |-> 0,
                               totalTrades |-> 0], xyzFills)
        second   == MatchAll(first.byAsset, 1, 0)
    IN  [byAsset          |-> second.byAsset,
         totalRealizedPnl |-> second.totalRealizedPnl,
         totalVolume      |-> first.totalVolume,
         totalTrades      |-> first.totalTrades]

\* The application holds an array of fills.
PnlInit ==
    /\ ws = NULL
    /\ readyState = [t \in Transports |-> "NONE"]
    /\ subscriptions = <<>>
    /\ reconnectAttempts = 0
    /\ isConnected = FALSE
    /\ callbacks = [onConnect |-> <<>>, onDisconnect |-> <<>>,
                    onTrade |-> <<>>, onError |-> <<>>]
    /\ timers = 0
    /\ last = Op("init", 0, <<>>)
    /\ fx = <<>>
    /\ desired = {}
    /\ resumed = NULL
    /\ fills \in FillArrays
    /\ pnlData = NULL
    /\ frame = Idle
    /\ stateTrades = <<>>

\* (a call whose lots are the fill objects themselves: what the matching
\* takes from a lot is taken from the sz of the buy)
CalculatePNLInPlace ==
    LET result == CalculatePNLFromFills(fills)
        lotOf(n) == Cardinality({m \in 1 .. n :
                                   /\ Get(fills[m], "coin") = Get(fills[n], "coin")
                                   /\ IsBuySide(Get(fills[m], "side"))})
        after(n) ==
            IF StartsWithXyz(Get(fills[n], "coin")) /\ IsBuySide(Get(fills[n], "side"))
            THEN RawFill(Get(fills[n], "coin"), Get(fills[n], "side"),
                         Get(fills[n], "px"),
                         Numeral(result.byAsset[Find(result.byAsset,
                                     Get(fills[n], "coin"))].buys[lotOf(n)].size))
            ELSE fills[n]
    IN  /\ pnlData' = result
        /\ fills' = [n \in 1 .. Len(fills) |-> after(n)]
        /\ last' = Repeated("calculatePNLFromFills", <<>>)
        /\ fx' = <<>>
        /\ UNCHANGED <<prog, desired, resumed, frame, stateTrades>>

\* pnlData = calculatePNLFromFills(fills): the function writes to the lot
\* objects it has made and to no fill object.
CalculatePNL ==
    /\ pnlData' = CalculatePNLFromFills(fills)
    /\ fills' = fills
    /\ last' = Repeated("calculatePNLFromFills", <<>>)
    /\ fx' = <<>>
    /\ UNCHANGED <<prog, desired, resumed, frame, stateTrades>>

PnlNext == CalculatePNL

PnlSpec == PnlInit /\ [][PnlNext]_vars

\* ------------------------------------------- fields that hold no number
\* Texts parseFloat finds no number in: a word, and the empty string.
Unparseable == {<<"a", "b", "c">>, <<>>}
\* Fills of one market with such a text for px or for sz, among fills whose
\* fields are numerals.
AnomalousObjects ==
    {RawFill("xyz:TSLA", side, text, Numeral(1)) :
        side \in {"B", "A"}, text \in Unparseable}
    \cup {RawFill("xyz:TSLA", side, Numeral(10), text) :
        side \in {"B", "A"}, text \in Unparseable}
    \cup {Fill("xyz:TSLA", "B", 10, 1), Fill("xyz:TSLA", "B", 20, 2),
          Fill("xyz:TSLA", "A", 15, 1), Fill("xyz:TSLA", "A", 15, 2),
          Fill("xyz:GOLD", "buy", 10, 1)}
AnomalousArrays == UNION {[1 .. n -> AnomalousObjects] : n \in 0 .. MaxFills}

\* The application holds an array in which fields may hold no number.
AnomalyInit ==
    /\ ws = NULL
    /\ readyState = [t \in Transports |-> "NONE"]
    /\ subscriptions = <<>>
    /\ reconnectAttempts = 0
    /\ isConnected = FALSE
    /\ callbacks = [onConnect |-> <<>>, onDisconnect |-> <<>>,
                    onTrade |-> <<>>, onError |-> <<>>]
    /\ timers = 0
    /\ last = Op("init", 0, <<>>)
    /\ fx = <<>>
    /\ desired = {}
    /\ resumed = NULL
    /\ fills \in AnomalousArrays
    /\ pnlData = NULL
    /\ frame = Idle
    /\ stateTrades = <<>>

AnomalySpec == AnomalyInit /\ [][PnlNext]_vars

\* ------------------------------- sizes whose differences are not numbers
\* Fills of one market with sizes 36 and 40 beside 1 and 2: each is a number
\* of SigBits digits, but 36 - 1 is not (as 0.5 - 0.1 is not among doubles).
WideSizes == {1, 2, 40}
WideObjects ==
    {Fill("xyz:TSLA", "B", px, sz) : px \in {10, 20}, sz \in WideSizes}
    \cup {Fill("xyz:TSLA", "A", 15, sz) : sz \in {1, 2, 36}}
WideArrays == UNION {[1 .. n -> WideObjects] : n \in 0 .. MaxFills}

\* The application holds an array with such sizes.
WideInit ==
    /\ ws = NULL
    /\ readyState = [t \in Transports |-> "NONE"]
    /\ subscriptions = <<>>
    /\ reconnectAttempts = 0
    /\ isConnected = FALSE
    /\ callbacks = [onConnect |-> <<>>, onDisconnect |-> <<>>,
                    onTrade |-> <<>>, onError |-> <<>>]
    /\ timers = 0
    /\ last = Op("init", 0, <<>>)
    /\ fx = <<>>
    /\ desired = {}
    /\ resumed = NULL
    /\ fills \in WideArrays
    /\ pnlData = NULL
    /\ frame = Idle
    /\ stateTrades = <<>>

WideSpec == WideInit /\ [][PnlNext]_vars

\* ------------------------------------ the call, iteration by iteration
\* frame holds the locals of the call: pc, where it stands ("asset": at the
\* head of Object.keys(pnlByAsset).forEach, "sell": at the head of
\* sells.forEach, "while": at the test of the while loop); by, pnlByAsset;
\* i, the place of the asset; st, its lots, queue and realizedPnl; k, the
\* place of the sell; remaining, remainingSellSize; totals, the three totals.
\* The history of matches is not kept.
Frame(pc, by, i, st, k, remaining, totals) ==
    [pc |-> pc, by |-> by, i |-> i, st |-> st, k |-> k, remaining |-> remaining,
     totals |-> totals]
NoLots == [lots |-> <<>>, queue |-> <<>>, pnl |-> 0, log |-> <<>>]

\* Fills of one market, the sizes zero and negative among them, and a sell
\* of a second market.
LoopObjects ==
    {Fill("xyz:TSLA", "B", 10, sz) : sz \in Sizes}
    \cup {Fill("xyz:TSLA", "A", 15, sz) : sz \in Sizes}
    \cup {RawFill("xyz:TSLA", "B", Numeral(10), <<>>),
          Fill("xyz:GOLD", "sell", 15, 1)}
LoopArrays == UNION {[1 .. n -> LoopObjects] : n \in 0 .. MaxFills}

LoopInit ==
    /\ ws = NULL
    /\ readyState = [t \in Transports |-> "NONE"]
    /\ subscriptions = <<>>
    /\ reconnectAttempts = 0
    /\ isConnected = FALSE
    /\ callbacks = [onConnect |-> <<>>, onDisconnect |-> <<>>,
                    onTrade |-> <<>>, onError |-> <<>>]
    /\ timers = 0
    /\ last = Op("init", 0, <<>>)
    /\ fx = <<>>
    /\ desired = {}
    /\ resumed = NULL
    /\ fills \in LoopArrays
    /\ pnlData = NULL
    /\ frame = Idle
    /\ stateTrades = <<>>

\* A step inside the call changes its locals only.
Within(name) ==
    /\ last' = Op(name, 0, <<>>)
    /\ fx' = <<>>
    /\ UNCHANGED <<prog, desired, resumed, fills, pnlData, stateTrades>>

\* The call, through the filter and the first forEach: 223-259.
Enter ==
    /\ frame.pc = "idle"
    /\ last.op = "init"
    /\ LET first == IngestAll([byAsset |-> EmptyLedger, totalVolume |-> 0,
                               totalTrades |-> 0],
                              SelectSeq(fills, LAMBDA f : StartsWithXyz(Get(f, "coin"))))
       IN  frame' = Frame("asset", first.byAsset, 1, NoLots, 1, 0,
                          [totalRealizedPnl |-> 0,
                           totalVolume      |-> first.totalVolume,
                           totalTrades      |-> first.totalTrades])
    /\ Within("enter")

\* Object.keys(pnlByAsset).forEach takes the next asset: 262-267.
EnterAsset ==
    /\ frame.pc = "asset"
    /\ frame.i <= Len(frame.by)
    /\ LET data == frame.by[frame.i]
       IN  frame' = [frame EXCEPT
                       !.pc = "sell",
                       !.st = [lots |-> data.buys,
                               queue |-> [j \in 1 .. Len(data.buys) |-> j],
                               pnl |-> 0, log |-> <<>>],
                       !.k = 1]
    /\ Within("asset")

\* sells.forEach takes the next sell: 269-270.
EnterSell ==
    /\ frame.pc = "sell"
    /\ frame.k <= Len(frame.by[frame.i].sells)
    /\ frame' = [frame EXCEPT !.pc = "while",
                              !.remaining = frame.by[frame.i].sells[frame.k].size]
    /\ Within("sell")

\* The test of the while loop holds, and its body runs once: 272-285.
Iterate ==
    /\ frame.pc = "while"
    /\ Matching(frame.st, frame.remaining)
    /\ LET once == MatchOnce(frame.st, frame.k,
                             frame.by[frame.i].sells[frame.k], frame.remaining)
       IN  frame' = [frame EXCEPT !.st = [once.st EXCEPT !.log = <<>>],
                                  !.remaining = once.remaining]
    /\ Within("iterate")

\* The test of the while loop fails: the callback of the sell returns.
LeaveWhile ==
    /\ frame.pc = "while"
    /\ ~Matching(frame.st, frame.remaining)
    /\ frame' = [frame EXCEPT !.pc = "sell", !.k = @ + 1]
    /\ Within("leave")

\* sells.forEach is through: 288-289.
LeaveAsset ==
    /\ frame.pc = "sell"
    /\ frame.k > Len(frame.by[frame.i].sells)
    /\ frame' = [frame EXCEPT
                    !.pc = "asset",
                    !.by[frame.i].buys = frame.st.lots,
                    !.by[frame.i].realizedPnl = frame.st.pnl,
                    !.totals.totalRealizedPnl = Add(@, frame.st.pnl),
                    !.i = @ + 1]
    /\ Within("next")

\* Object.keys(pnlByAsset).forEach is through: return, 292-297.
Return ==
    /\ frame.pc = "asset"
    /\ frame.i > Len(frame.by)
    /\ pnlData' = [byAsset          |-> frame.by,
                   totalRealizedPnl |-> frame.totals.totalRealizedPnl,
                   totalVolume      |-> frame.totals.totalVolume,
                   totalTrades      |-> frame.totals.totalTrades]
    /\ frame' = Idle
    /\ last' = Op("calculatePNLFromFills", 0, <<>>)
    /\ fx' = <<>>
    /\ UNCHANGED <<prog, desired, resumed, fills, stateTrades>>

\* The steps of a call that has been entered.
Running ==
    \/ EnterAsset
    \/ EnterSell
    \/ Iterate
    \/ LeaveWhile
    \/ LeaveAsset
    \/ Return

LoopNext ==
    \/ Enter
    \/ Running

\* The call is synchronous: once entered it is run on, step after step.
LoopSpec == LoopInit /\ [][LoopNext]_vars /\ WF_vars(Running)

\* ===================================================================
\* Properties
\* ===================================================================
SubscribeOps == {"subscribeTrades", "subscribeAllMids", "subscribeL2Book"}
Scheduled(f) == \E i \in 1 .. Len(f) : f[i].k = "timer"
Created(f)   == \E i \in 1 .. Len(f) : f[i].k = "new"
Sends(f)     == SelectSeq(f, LAMBDA e : e.k = "send")
\* How many times the frame (m, s) went out on transport t in f.
CountSends(f, t, m, s) ==
    Cardinality({i \in 1 .. Len(f) : f[i] = SendFx(t, m, s)})
\* How many subscribe frames for the subscription of key key went out on
\* transport t in f.
CountSubscribes(f, t, key) ==
    Cardinality({i \in 1 .. Len(f) :
        /\ f[i].k = "send" /\ f[i].t = t /\ f[i].m = "subscribe"
        /\ Stringify(f[i].s) = key})
OpenOrOpening == {t \in Transports : readyState[t] \in {"CONNECTING", "OPEN"}}
CurrentIsOpen == ws # NULL /\ readyState[ws] = "OPEN"

\* C1: in every reachable state at most one transport is open or opening; a
\* connect() made while a transport is still connecting creates no second one.
C1_SingleTransport == Cardinality(OpenOrOpening) <= 1

\* C2: the close event of a transport that disconnect() closed schedules no
\* reconnection timer, so connect() is not called automatically afterwards.
C2_NoRetryAfterDisconnect ==
    (last.op = "close" /\ last.s = WasState("CLOSING")) => ~Scheduled(fx)

\* C3 as claimed: once maxAttempts transport closes have followed one another
\* with no open in between (the close event leaves the counter at
\* maxAttempts), no further reconnection timer is scheduled.
C3_StopsAfterMaxFailures ==
    (last.op = "close" /\ reconnectAttempts = maxReconnectAttempts) => ~Scheduled(fx)

\* C3 as amended: a close event that finds the attempt counter already at
\* maxAttempts leaves the counter alone and schedules no timer; and while no
\* transport is alive and no timer is pending, nothing but a connect() call
\* by the host creates a transport: the manager stays disconnected.
C3_StopsWhenBudgetSpent ==
    [][ /\ (last'.op = "close" /\ reconnectAttempts = maxReconnectAttempts)
            => /\ reconnectAttempts' = reconnectAttempts
               /\ timers' = timers
               /\ ~Scheduled(fx')
        /\ (Live(readyState) = {} /\ timers = 0 /\ last'.op # "connect")
            => /\ Live(readyState') = {}
               /\ timers' = 0
               /\ ~Created(fx')
               /\ ~isConnected'
      ]_vars

\* C3 witness: the retry budget is spent: a close event found the counter at
\* maxAttempts, scheduled nothing, and nothing is left alive or pending.
C3_BudgetSpent ==
    /\ last.op = "close"
    /\ reconnectAttempts = maxReconnectAttempts
    /\ ~Scheduled(fx)
    /\ timers = 0
    /\ Live(readyState) = {}
    /\ ~isConnected

\* C4: a connect() call by the host made with the retry budget spent (counter
\* at maxAttempts, nothing alive or pending) resets the counter to 0.
C4_ConnectResetsAttempts ==
    [][ (/\ last'.op = "connect"
         /\ reconnectAttempts = maxReconnectAttempts
         /\ Live(readyState) = {}
         /\ timers = 0)
        => reconnectAttempts' = 0 ]_vars

\* C5: when the connection made by a connect() after the disconnect() of an
\* open connection opens, every subscription asked for and not unsubscribed
\* from is sent as a subscribe frame exactly once on it, and no other is.
C5_ReplayAfterReconnect ==
    (last.op = "open" /\ last.t = resumed /\ ws = resumed)
    => \A key \in Keys :
          CountSubscribes(fx, resumed, key) = (IF key \in desired THEN 1 ELSE 0)

\* C6: the second of two identical subscribe calls made in a row while the
\* current transport is open sends no frame, and the subscription set holds
\* the subscription once.
C6_DuplicateSubscribeIsNoOp ==
    (last.op \in SubscribeOps /\ last.again /\ CurrentIsOpen)
    => /\ fx = <<>>
       /\ Cardinality({i \in 1 .. Len(subscriptions) :
                         subscriptions[i] = Stringify(last.s)}) = 1

\* C7: a subscribe call made while the current transport is still connecting
\* sends no frame then, and the open event of that transport, coming next,
\* sends the subscribe frame for it.
C7_SubscribeBeforeOpenIsSent ==
    [][ /\ (last'.op \in SubscribeOps /\ ~CurrentIsOpen) => fx' = <<>>
        /\ (/\ last.op \in SubscribeOps
            /\ ws # NULL
            /\ readyState[ws] = "CONNECTING"
            /\ last'.op = "open"
            /\ last'.t = ws)
           => CountSends(fx', ws, "subscribe", last.s) = 1 ]_vars

\* C8: unsubscribe(s) leaves s out of the subscription set; when s was in the
\* set it sends one unsubscribe frame if the current transport is open and
\* none otherwise; when s was not in the set it changes nothing and sends
\* nothing.
C8_UnsubscribeContract ==
    [][ last'.op = "unsubscribe"
        => /\ ~HasIn(subscriptions', Stringify(last'.s))
           /\ IF Has(Stringify(last'.s))
              THEN fx' = (IF CurrentIsOpen
                          THEN <<SendFx(ws, "unsubscribe", last'.s)>> ELSE <<>>)
              ELSE subscriptions' = subscriptions /\ fx' = <<>> ]_vars

\* C9: disconnect() leaves the subscription set unchanged, and when the
\* transport of the connect() that follows it opens, the frames sent are
\* one subscribe frame on that transport for each subscription of the set, and
\* nothing else.
C9_DisconnectKeepsSubscriptions ==
    [][ /\ last'.op = "disconnect" => subscriptions' = subscriptions
        /\ (last'.op = "open" /\ last'.t = resumed)
           => /\ \A i \in 1 .. Len(subscriptions) :
                    CountSends(fx', resumed, "subscribe", Parse(subscriptions[i])) = 1
              /\ Len(Sends(fx')) = Len(subscriptions) ]_vars

\* C10: connect() called while the current transport is open does nothing: no
\* transport is created, no frame is sent, no listener is invoked and the
\* manager's fields are unchanged (a timer's connect() uses up the timer).
C10_ConnectWhileOpenIsNoOp ==
    [][ /\ (last'.op = "connect" /\ ws # NULL /\ readyState[ws] = "OPEN")
           => fx' = <<>> /\ UNCHANGED prog
        /\ (last'.op = "timer" /\ ws # NULL /\ readyState[ws] = "OPEN")
           => /\ fx' = <<>>
              /\ UNCHANGED <<ws, readyState, subscriptions, reconnectAttempts,
                             isConnected, callbacks>> ]_vars

\* C10 witness: connect() has just returned without doing anything, on an open
\* connection with subscriptions and an onConnect listener in place.
C10_ConnectIgnored ==
    /\ last.op = "connect"
    /\ fx = <<>>
    /\ ws # NULL
    /\ readyState[ws] = "OPEN"
    /\ isConnected
    /\ subscriptions # <<>>
    /\ callbacks.onConnect # <<>>

\* C11: when a transport opens, the manager is connected, the attempt counter
\* is 0, every subscription of the desired set has been sent as a subscribe
\* frame exactly once on the opened transport, and every one of those frames
\* went out before the first onConnect listener was invoked.
C11_OpenReplaysThenNotifies ==
    last.op = "open"
    => /\ isConnected
       /\ reconnectAttempts = 0
       /\ \A key \in desired : CountSubscribes(fx, last.t, key) = 1
       /\ \A i, j \in 1 .. Len(fx) :
             (fx[i].k = "call" /\ fx[j].k = "send") => j < i

\* ---------------------------------------------------------- dispatch
Calls(f) == SelectSeq(f, LAMBDA e : e.k = "call")
CallsTo(f, list, id) == SelectSeq(f, LAMBDA e : e.k = "call" /\ e.m = list /\ e.t = id)
\* The listeners called in f, in the order of the calls.
Called(f) == [i \in 1 .. Len(Calls(f)) |-> Calls(f)[i].t]
\* The calls of f are calls of the listeners of list and of no other list.
OnlyListeners(f, list) == \A i \in 1 .. Len(Calls(f)) : Calls(f)[i].m = list
\* The channel named in a whole message text, and the trade records a trades
\* message carries, in the order the venue wrote them.
ChannelOf(text) == text[2]
RecordsOf(text) == IF text[4].isArray THEN text[4].v ELSE <<text[4].v>>
IsTradesMessage(o) == o.op = "message" /\ Decodable(o.s) /\ ChannelOf(o.s) = "trades"
\* The records listener id has handed to addTrade during f, in order.
RECURSIVE Handed(_)
Handed(cs) == IF cs = <<>> THEN <<>> ELSE OnTradeListener(Head(cs).s) \o Handed(Tail(cs))

\* C12: a trades message makes the manager call every onTrade listener exactly
\* once, and the records each listener gets out of that call are the records
\* the message carries, all of them, once each, in the message's order, and
\* none of any other message.
C12_TradesDeliveredInOrder ==
    IsTradesMessage(last)
    => \A i \in 1 .. Len(callbacks.onTrade) :
          LET cs == CallsTo(fx, "onTrade", callbacks.onTrade[i]) IN
          /\ Len(cs) = 1
          /\ Handed(cs) = RecordsOf(last.s)

\* C12 witness: a message carrying two different records has been dispatched
\* to two onTrade listeners.
C12_BatchDelivered ==
    /\ IsTradesMessage(last)
    /\ Len(callbacks.onTrade) = 2
    /\ Len(RecordsOf(last.s)) = 2
    /\ RecordsOf(last.s)[1] # RecordsOf(last.s)[2]
    /\ Len(Calls(fx)) = 2

\* C13: each event (open, close, trades message, error) calls the listeners
\* registered for its kind when it occurs, each once, in registration order,
\* and no listener of another kind; registering a listener calls nothing.
C13_ListenersInRegistrationOrder ==
    /\ last.op = "open"  => Called(fx) = callbacks.onConnect /\ OnlyListeners(fx, "onConnect")
    /\ last.op = "close" => Called(fx) = callbacks.onDisconnect /\ OnlyListeners(fx, "onDisconnect")
    /\ last.op = "error" => Called(fx) = callbacks.onError /\ OnlyListeners(fx, "onError")
    /\ IsTradesMessage(last) => Called(fx) = callbacks.onTrade /\ OnlyListeners(fx, "onTrade")
    /\ last.op \in Lists => fx = <<>>

\* C13 witness: a transport has closed with two onDisconnect listeners
\* registered, and both have been called.
C13_TwoListenersCalled ==
    /\ last.op = "close"
    /\ Len(callbacks.onDisconnect) = 2
    /\ Len(Calls(fx)) = 2

\* C14: a decoded message changes no field of the manager; it calls the
\* onTrade listeners, and nothing else, when its channel is trades; it calls
\* no listener and reports no error when its channel is subscriptionResponse,
\* allMids, l2Book or one the manager does not know.
C14_DispatchByChannel ==
    [][ (last'.op = "message" /\ Decodable(last'.s))
        => /\ UNCHANGED prog
           /\ IF ChannelOf(last'.s) = "trades"
              THEN /\ Len(fx') = Len(callbacks.onTrade)
                   /\ Called(fx') = callbacks.onTrade
                   /\ OnlyListeners(fx', "onTrade")
              ELSE fx' = <<>> ]_vars

\* C14 witness: a message of a channel the manager does not know has arrived
\* with onTrade and onError listeners registered, and nothing was called.
C14_UnknownChannelDropped ==
    /\ last.op = "message"
    /\ Decodable(last.s)
    /\ ChannelOf(last.s) = "pong"
    /\ callbacks.onTrade # <<>>
    /\ callbacks.onError # <<>>
    /\ fx = <<>>

\* C15: a payload that cannot be decoded calls no listener and changes no
\* field of the manager (the failure is logged); a trades message that
\* arrives right after it is dispatched to the onTrade listeners.
C15_MalformedSwallowed ==
    [][ /\ (last'.op = "message" /\ ~Decodable(last'.s))
           => Calls(fx') = <<>> /\ UNCHANGED prog
        /\ (last.op = "message" /\ ~Decodable(last.s) /\ IsTradesMessage(last'))
           => Called(fx') = callbacks.onTrade ]_vars

\* C15 witness: a payload cut short has arrived on the open connection with
\* onTrade and onError listeners registered; it was logged and nothing called.
C15_MalformedArrived ==
    /\ last.op = "message"
    /\ ~Decodable(last.s)
    /\ callbacks.onTrade # <<>>
    /\ callbacks.onError # <<>>
    /\ isConnected
    /\ subscriptions # <<>>
    /\ Len(fx) = 1
    /\ fx[1].k = "error"

\* C16: an error event calls every onError listener once, in order, with the
\* error value, changes no field of the manager, creates no transport and
\* schedules no reconnection timer.
C16_ErrorOnlyNotifies ==
    [][ last'.op = "error"
        => /\ Called(fx') = callbacks.onError
           /\ \A i \in 1 .. Len(Calls(fx')) :
                 Calls(fx')[i].m = "onError" /\ Calls(fx')[i].s = ErrorEvent
           /\ ~Scheduled(fx')
           /\ ~Created(fx')
           /\ UNCHANGED prog ]_vars

\* C16 witness: an error event has arrived on the open connection and two
\* onError listeners were called; the manager still reports connected.
C16_ErrorReported ==
    /\ last.op = "error"
    /\ readyState[last.t] = "OPEN"
    /\ isConnected
    /\ Len(callbacks.onError) = 2
    /\ Len(Calls(fx)) = 2

\* ----------------------------------------------------------- backoff
TimersOf(f) == SelectSeq(f, LAMBDA e : e.k = "timer")
\* The delays of the claim, by the value of the counter after the increment.
Backoff == <<1000, 2000, 4000, 8000, 16000>>

\* C17: a close event that finds the attempt counter below maxAttempts adds
\* exactly one to it and schedules one timer whose delay is
\* baseDelay * 2^(attempts - 1) for the new value of the counter: 1000, 2000,
\* 4000, 8000 and 16000 ms for the values 1 to 5.
C17_BackoffDelays ==
    [][ (last'.op = "close" /\ reconnectAttempts < maxReconnectAttempts)
        => /\ reconnectAttempts' = reconnectAttempts + 1
           /\ TimersOf(fx') = <<TimerFx(Backoff[reconnectAttempts'])>> ]_vars

\* C17 witness: the fifth failure in a row has scheduled a reconnection
\* 16000 ms away.
C17_FifthDelay ==
    /\ last.op = "close"
    /\ reconnectAttempts = 5
    /\ TimersOf(fx) = <<TimerFx(16000)>>

\* C18: never more than one reconnection timer is pending; and a timer that
\* fires when disconnect() has been called since the last connect() (this.ws
\* is null), or when the current transport is open, creates no transport and
\* changes nothing.
C18_OneTimerWithoutLateEffect ==
    [][ /\ timers' <= 1
        /\ (last'.op = "timer" /\ (ws = NULL \/ CurrentIsOpen))
           => /\ fx' = <<>>
              /\ UNCHANGED <<ws, readyState, subscriptions, reconnectAttempts,
                             isConnected, callbacks>> ]_vars

\* C19: whenever a close event has found attempts left and scheduled a
\* reconnection, connect() is called again by the timer; and whenever a
\* transport opens, the manager reports connected, the attempt counter is 0,
\* and the transport, if it is the current one, is the open connection.
C19_ReconnectsEventually ==
    /\ (last.op = "close" /\ Scheduled(fx)) ~> (last.op = "timer")
    /\ [](last.op = "open"
          => /\ isConnected
             /\ reconnectAttempts = 0
             /\ (last.t = ws => CurrentIsOpen))

\* C19 witness: after a closure the timer has fired and its connect() has
\* created the next transport, which is connecting.
C19_TimerReconnected ==
    /\ last.op = "timer"
    /\ Created(fx)
    /\ reconnectAttempts >= 1
    /\ ws # NULL
    /\ readyState[ws] = "CONNECTING"

\* ------------------------------------------------- subscribeAllTrades
\* How many entries of the subscription set are the trades subscription of c.
TradesEntries(c) ==
    Cardinality({i \in 1 .. Len(subscriptions) :
                    subscriptions[i] = Stringify(TradesSub(c))})
FiveFallbackIds == {"xyz:XYZ100", "xyz:TSLA", "xyz:NVDA", "xyz:AAPL", "xyz:GOLD"}

\* C20: after subscribeAllTrades() the subscription set holds the trades
\* subscription of every market of the registry exactly once; after a call
\* made with the registry empty it holds that of each of the five fallback
\* markets exactly once; in both cases the set is not empty.
C20_AllMarketsSubscribed ==
    last.op = "subscribeAllTrades"
    => /\ \A i \in 1 .. Len(last.s) : TradesEntries(last.s[i]) = 1
       /\ last.s = <<>> => \A c \in FiveFallbackIds : TradesEntries(c) = 1
       /\ subscriptions # <<>>
       /\ desired # {}

\* C20 witness: subscribeAllTrades() has run with an empty registry after a
\* run with two markets in it, on the open connection: the set holds the two
\* markets and the five fallback ones.
C20_FallbackSubscribed ==
    /\ last.op = "subscribeAllTrades"
    /\ last.s = <<>>
    /\ CurrentIsOpen
    /\ Len(subscriptions) = 7
    /\ fx # <<>>

\* ---------------------------------------------------------------- PNL
\* The call has returned.
Returned == last.op = "calculatePNLFromFills"
\* The assets of the result, and the entry of one.
AssetsOf(result) == {result.byAsset[i].asset : i \in 1 .. Len(result.byAsset)}
EntryOf(result, asset) == result.byAsset[Find(result.byAsset, asset)]
\* The fills of the array that the function treats as buys, or as sells, of
\* asset, in the array's order, with the price and size each states.
SideOf(asset, buy) ==
    SelectSeq(fills, LAMBDA f : Get(f, "coin") = asset
                                /\ IsBuySide(Get(f, "side")) = buy)
PriceOf(f) == ParseFloat(Get(f, "px"))
SizeOf(f) == ParseFloat(Get(f, "sz"))
\* The matches made for asset, in the order made.
MatchesOf(asset) ==
    LET first == IngestAll([byAsset |-> <<>>, totalVolume |-> 0, totalTrades |-> 0],
                           SelectSeq(fills, LAMBDA f : StartsWithXyz(Get(f, "coin"))))
    IN  MatchAsset(EntryOf(first, asset)).log
\* What the matches before the n-th have taken from lot j, and for sell k.
TakenFrom(log, n, j) ==
    Sum([m \in 1 .. n - 1 |-> IF log[m].lot = j THEN log[m].matchSize ELSE 0], n - 1)
TakenFor(log, n, k) ==
    Sum([m \in 1 .. n - 1 |-> IF log[m].sell = k THEN log[m].matchSize ELSE 0], n - 1)

\* C21: every match of a sell is with the oldest buy lot of its asset that is
\* still in the queue (every older lot has been matched before and has
\* nothing left), whatever the prices; the size matched is the smaller of
\* what is left of the sell and what is left of the lot; the asset's
\* realizedPnl is the sum, in the order of the matches, of (sell price - lot
\* price) * size matched; buys of 1 at 10 and 1 at 20 followed by a sell of
\* 2 at 15 realize 0.
C21_FifoMatching ==
    Returned =>
        /\ \A asset \in AssetsOf(pnlData) :
              LET log   == MatchesOf(asset)
                  buys  == SideOf(asset, TRUE)
                  sells == SideOf(asset, FALSE)
              IN  /\ \A n \in 1 .. Len(log) :
                        /\ \A j \in 1 .. log[n].lot - 1 :
                              /\ \E m \in 1 .. n - 1 : log[m].lot = j
                              /\ SizeOf(buys[j]) - TakenFrom(log, n, j) <= 0
                        /\ \A m \in 1 .. n - 1 : /\ log[m].sell <= log[n].sell
                                                 /\ log[m].lot <= log[n].lot
                        /\ log[n].matchSize =
                              MathMin(SizeOf(sells[log[n].sell])
                                        - TakenFor(log, n, log[n].sell),
                                      SizeOf(buys[log[n].lot])
                                        - TakenFrom(log, n, log[n].lot))
                  /\ EntryOf(pnlData, asset).realizedPnl =
                        Accumulated([n \in 1 .. Len(log) |->
                                       Mul(Sub(PriceOf(sells[log[n].sell]),
                                               PriceOf(buys[log[n].lot])),
                                           log[n].matchSize)], Len(log))
        /\ fills = <<Fill("xyz:TSLA", "B", 10, 1), Fill("xyz:TSLA", "B", 20, 1),
                     Fill("xyz:TSLA", "A", 15, 2)>>
             => EntryOf(pnlData, "xyz:TSLA").realizedPnl = 0

\* A sell of 2 has met a dearer lot and then a cheaper one, each for 1.
C21_DearerLotFirst ==
    /\ Returned
    /\ fills = <<Fill("xyz:TSLA", "B", 20, 1), Fill("xyz:TSLA", "B", 10, 1),
                 Fill("xyz:TSLA", "A", 15, 2)>>
    /\ MatchesOf("xyz:TSLA") = <<Matched(1, 1, 1), Matched(1, 2, 1)>>
    /\ EntryOf(pnlData, "xyz:TSLA").realizedPnl = 0

\* What is left of the sell, and of the lot, of the n-th match when it is made.
SellLeft(asset, log, n) ==
    SizeOf(SideOf(asset, FALSE)[log[n].sell]) - TakenFor(log, n, log[n].sell)
LotLeft(asset, log, n) ==
    SizeOf(SideOf(asset, TRUE)[log[n].lot]) - TakenFrom(log, n, log[n].lot)

\* C22: when what is left of a sell is smaller than what is left of the lot
\* it meets, the match is for what is left of the sell only, and the lot
\* stays at the front reduced by that much: the next match of the asset, if
\* there is one, is with the same lot, and otherwise the lot ends with that
\* remainder.  A buy of 5 at 10 and a sell of 2 at 12 realize 4 and leave
\* the lot at 3 (price 10); a later sell of 3 meets that lot first.
C22_PartialMatch ==
    Returned =>
        /\ \A asset \in AssetsOf(pnlData) :
              LET log == MatchesOf(asset)
              IN  \A n \in 1 .. Len(log) :
                      SellLeft(asset, log, n) < LotLeft(asset, log, n) =>
                          /\ log[n].matchSize = SellLeft(asset, log, n)
                          /\ IF n < Len(log)
                             THEN /\ log[n + 1].lot = log[n].lot
                                  /\ log[n + 1].sell > log[n].sell
                             ELSE /\ EntryOf(pnlData, asset).buys[log[n].lot].size =
                                       LotLeft(asset, log, n) - SellLeft(asset, log, n)
                                  /\ EntryOf(pnlData, asset).buys[log[n].lot].price =
                                       PriceOf(SideOf(asset, TRUE)[log[n].lot])
        /\ fills = <<Fill("xyz:TSLA", "B", 10, 5), Fill("xyz:TSLA", "A", 12, 2)>>
             => /\ EntryOf(pnlData, "xyz:TSLA").realizedPnl = 4
                /\ EntryOf(pnlData, "xyz:TSLA").buys =
                     <<[price |-> 10, size |-> 3, value |-> 50]>>
        /\ fills = <<Fill("xyz:TSLA", "B", 10, 5), Fill("xyz:TSLA", "A", 12, 2),
                     Fill("xyz:TSLA", "A", 12, 3)>>
             => MatchesOf("xyz:TSLA") = <<Matched(1, 1, 2), Matched(2, 1, 3)>>

\* The buy of 5 has been sold in two parts, of 2 and of 3, and nothing is
\* left of it.
C22_SoldInTwoParts ==
    /\ Returned
    /\ fills = <<Fill("xyz:TSLA", "B", 10, 5), Fill("xyz:TSLA", "A", 12, 2),
                 Fill("xyz:TSLA", "A", 12, 3)>>
    /\ EntryOf(pnlData, "xyz:TSLA").realizedPnl = 10
    /\ EntryOf(pnlData, "xyz:TSLA").buys[1].size = 0

\* C23: an asset of which the array holds only buys has realizedPnl 0: no
\* match is made, and every lot is left as it was bought.
C23_OnlyBuysRealizeNothing ==
    Returned =>
        \A asset \in AssetsOf(pnlData) :
            SideOf(asset, FALSE) = <<>> =>
                /\ EntryOf(pnlData, asset).realizedPnl = 0
                /\ MatchesOf(asset) = <<>>
                /\ \A j \in 1 .. Len(SideOf(asset, TRUE)) :
                      EntryOf(pnlData, asset).buys[j].size = SizeOf(SideOf(asset, TRUE)[j])

\* Three buys of one asset, at two prices, and nothing else.
C23_ThreeBuys ==
    /\ Returned
    /\ fills = <<Fill("xyz:TSLA", "B", 10, 1), Fill("xyz:TSLA", "B", 20, 2),
                 Fill("xyz:TSLA", "B", 10, 2)>>
    /\ pnlData.totalRealizedPnl = 0
    /\ Len(EntryOf(pnlData, "xyz:TSLA").buys) = 3

\* C24: an asset of which the array holds only sells has realizedPnl 0: there
\* is no lot, and no match is made.
C24_OnlySellsRealizeNothing ==
    Returned =>
        \A asset \in AssetsOf(pnlData) :
            SideOf(asset, TRUE) = <<>> =>
                /\ EntryOf(pnlData, asset).realizedPnl = 0
                /\ MatchesOf(asset) = <<>>
                /\ EntryOf(pnlData, asset).buys = <<>>

\* Three sells of one asset and nothing else.
C24_ThreeSells ==
    /\ Returned
    /\ fills = <<Fill("xyz:TSLA", "A", 15, 1), Fill("xyz:TSLA", "A", 15, 2),
                 Fill("xyz:TSLA", "A", 15, 1)>>
    /\ pnlData.totalRealizedPnl = 0
    /\ Len(EntryOf(pnlData, "xyz:TSLA").sells) = 3

\* The value of the n-th fill of fs, and the fills of asset in the array.
ValuesOf(fs) == [n \in 1 .. Len(fs) |-> Mul(PriceOf(fs[n]), SizeOf(fs[n]))]
FillsOf(asset) == SelectSeq(fills, LAMBDA f : Get(f, "coin") = asset)
\* The array is what the caller is to pass: fills of the xyz namespace only.
Filtered == \A n \in 1 .. Len(fills) : StartsWithXyz(Get(fills[n], "coin"))

\* C25: for every array of fills of the namespace, the empty one included,
\* totalVolume is the sum of price * size over the fills, added in the
\* array's order, and totalTrades is the number of fills, matched or not; the
\* empty array gives no asset and totals 0, 0 and 0.
C25_TotalsOverAllFills ==
    Returned /\ Filtered =>
        /\ pnlData.totalVolume = Accumulated(ValuesOf(fills), Len(fills))
        /\ pnlData.totalTrades = Len(fills)
        /\ fills = <<>> => pnlData = [byAsset |-> <<>>, totalRealizedPnl |-> 0,
                                      totalVolume |-> 0, totalTrades |-> 0]

\* A buy, the sell that is matched with it and a sell that meets no lot:
\* three trades, volume 10 + 15 + 15.
C25_MatchedAndUnmatched ==
    /\ Returned
    /\ fills = <<Fill("xyz:TSLA", "B", 10, 1), Fill("xyz:TSLA", "A", 15, 1),
                 Fill("xyz:TSLA", "A", 15, 1)>>
    /\ MatchesOf("xyz:TSLA") = <<Matched(1, 1, 1)>>
    /\ pnlData.totalTrades = 3
    /\ pnlData.totalVolume = 40

\* C26: the result has an entry for each asset of the namespace that has a
\* fill in the array and for no other; the entry's volume is the sum of
\* price * size over the asset's fills, added in the array's order, and its
\* trades the number of those fills, buys and sells alike, matched or not.
C26_PerAssetVolumeAndCount ==
    Returned =>
        /\ AssetsOf(pnlData) =
             {Get(fills[n], "coin") : n \in 1 .. Len(fills)} \cap XyzNames
        /\ \A i, j \in 1 .. Len(pnlData.byAsset) :
              pnlData.byAsset[i].asset = pnlData.byAsset[j].asset => i = j
        /\ \A asset \in AssetsOf(pnlData) :
              /\ EntryOf(pnlData, asset).volume =
                   Accumulated(ValuesOf(FillsOf(asset)), Len(FillsOf(asset)))
              /\ EntryOf(pnlData, asset).trades = Len(FillsOf(asset))

\* Two assets: one with a buy and a sell, the other with a buy between them.
C26_TwoAssets ==
    /\ Returned
    /\ fills = <<Fill("xyz:TSLA", "B", 10, 1), Fill("xyz:GOLD", "buy", 10, 1),
                 Fill("xyz:TSLA", "A", 15, 1)>>
    /\ EntryOf(pnlData, "xyz:TSLA").volume = 25
    /\ EntryOf(pnlData, "xyz:TSLA").trades = 2
    /\ EntryOf(pnlData, "xyz:GOLD").volume = 10
    /\ EntryOf(pnlData, "xyz:GOLD").trades = 1

\* C27: the totals of a result are the sums over its entries: of realizedPnl,
\* of volume and of trades.
C27_TotalsAreAggregates ==
    Returned =>
        LET by == pnlData.byAsset
        IN  /\ pnlData.totalRealizedPnl =
                 Accumulated([i \in 1 .. Len(by) |-> by[i].realizedPnl], Len(by))
            /\ pnlData.totalVolume =
                 Accumulated([i \in 1 .. Len(by) |-> by[i].volume], Len(by))
            /\ pnlData.totalTrades =
                 Accumulated([i \in 1 .. Len(by) |-> by[i].trades], Len(by))

\* C28: a second call on the same array, the very objects the first call was
\* given, returns what the first returned and leaves the array as it was.
C28_SecondCallSameResult ==
    [][last.op = "calculatePNLFromFills" /\ last'.op = "calculatePNLFromFills"
         => pnlData' = pnlData /\ fills' = fills]_vars

\* The function has been called twice on an array of which it matched a part:
\* a lot of 5 has 3 left in the result.
C28_CalledTwice ==
    /\ Returned
    /\ last.again
    /\ fills = <<Fill("xyz:TSLA", "B", 10, 5), Fill("xyz:TSLA", "A", 12, 2)>>
    /\ EntryOf(pnlData, "xyz:TSLA").buys[1].size = 3
    /\ pnlData.totalTrades = 2

\* All that the matches of log have taken from lot j, and for sell k.
AllTakenFrom(log, j) == TakenFrom(log, Len(log) + 1, j)
AllTakenFor(log, k) == TakenFor(log, Len(log) + 1, k)

\* C29: no lot gives more than the size it was bought with; and when a sell
\* asks for more than the lots of its asset still hold, so that a part of it
\* stays unmatched, the queue is empty when its matching ends (every lot has been matched and
\* has nothing left), that part is matched with nothing (no match follows
\* for any later sell, and realizedPnl is the sum over the matches made
\* alone), and the call returns its result all the same.
C29_ExcessSellIgnored ==
    Returned =>
        \A asset \in AssetsOf(pnlData) :
            LET log   == MatchesOf(asset)
                buys  == SideOf(asset, TRUE)
                sells == SideOf(asset, FALSE)
            IN  /\ \A j \in 1 .. Len(buys) : SizeOf(buys[j]) >= 0 => AllTakenFrom(log, j) <= SizeOf(buys[j])
                /\ \A k \in 1 .. Len(sells) :
                      SizeOf(sells[k]) > 0 /\ AllTakenFor(log, k) < SizeOf(sells[k]) =>
                          /\ \A j \in 1 .. Len(buys) :
                                /\ \E m \in 1 .. Len(log) : log[m].lot = j
                                /\ EntryOf(pnlData, asset).buys[j].size <= 0
                          /\ \A m \in 1 .. Len(log) : log[m].sell <= k
                          /\ EntryOf(pnlData, asset).realizedPnl =
                                Accumulated([m \in 1 .. Len(log) |->
                                               Mul(Sub(PriceOf(sells[log[m].sell]),
                                                       PriceOf(buys[log[m].lot])),
                                                   log[m].matchSize)], Len(log))
                          /\ EntryOf(pnlData, asset).trades = Len(buys) + Len(sells)

\* A sell of 2 has met a single lot of 1: one match, for 1, realizing 5, and
\* none for the sell that follows.
C29_SellLargerThanLots ==
    /\ Returned
    /\ fills = <<Fill("xyz:TSLA", "B", 10, 1), Fill("xyz:TSLA", "A", 15, 2),
                 Fill("xyz:TSLA", "A", 15, 1)>>
    /\ MatchesOf("xyz:TSLA") = <<Matched(1, 1, 1)>>
    /\ EntryOf(pnlData, "xyz:TSLA").realizedPnl = 5
    /\ pnlData.totalRealizedPnl = 5

\* The realizedPnl of asset in a result, 0 when the result has no entry for it.
RealizedOf(result, asset) ==
    IF asset \in AssetsOf(result) THEN EntryOf(result, asset).realizedPnl ELSE 0
\* The array without the fills whose size is not positive.
PositiveFills == SelectSeq(fills, LAMBDA f : SizeOf(f) > 0)

\* C30: a fill whose size is zero or negative, buy or sell, takes no part in
\* the matching: every match it appears in is for 0, and every asset's
\* realizedPnl is what the array without such fills gives; the fill is
\* counted all the same, 1 in trades and price * size in volume.
C30_NonPositiveSizeExcluded ==
    Returned =>
        \A asset \in AssetsOf(pnlData) :
            LET log   == MatchesOf(asset)
                buys  == SideOf(asset, TRUE)
                sells == SideOf(asset, FALSE)
            IN  /\ \A n \in 1 .. Len(log) :
                      SizeOf(buys[log[n].lot]) <= 0 \/ SizeOf(sells[log[n].sell]) <= 0
                          => log[n].matchSize = 0
                /\ EntryOf(pnlData, asset).realizedPnl =
                      RealizedOf(CalculatePNLFromFills(PositiveFills), asset)
                /\ EntryOf(pnlData, asset).trades = Len(FillsOf(asset))
                /\ EntryOf(pnlData, asset).volume =
                      Accumulated(ValuesOf(FillsOf(asset)), Len(FillsOf(asset)))

\* ===================================================================
\* The trade feed of js/app.js: addTrade and state.trades
\* ===================================================================
MAX_TRADES == 100
MaxExtra   == 2       \* xyz trades received after state.trades is full

\* text.startsWith(prefix), on texts held as sequences of characters.
StartsWith(text, prefix) ==
    /\ Len(text) >= Len(prefix)
    /\ SubSeq(text, 1, Len(prefix)) = prefix

\* A trade record the listener is given: its coin, when it has one, and the
\* venue's number for the trade, which grows from trade to trade.
TradeRecord(coin, tid) == [coin |-> coin, tid |-> tid]
Coinless(tid) == [tid |-> tid]

FeedCoins == {<<"x", "y", "z", ":", "T">>, <<"a", "b", "c", ":", "T">>,
              <<"x", "y", "z">>, <<>>}

\* (a test that lets in every record that has a coin)
HasCoin(trade) == "coin" \in DOMAIN trade /\ trade.coin # <<>>

\* The record passes the test of addTrade: trade.coin is there, is not the
\* empty text, and starts with 'xyz:'.
Shown(trade) ==
    /\ "coin" \in DOMAIN trade
    /\ trade.coin # <<>>
    /\ StartsWith(trade.coin, <<"x", "y", "z", ":">>)

\* array.unshift(x); array.slice(0, n).
Unshift(array, x) == <<x>> \o array
Slice(array, n) == SubSeq(array, 1, IF n < Len(array) THEN n ELSE Len(array))

\* state.trades after addTrade(trade) when it held list before.
AddTradeTo(list, trade) ==
    IF ~Shown(trade) THEN list
    ELSE LET longer == Unshift(list, trade)
         IN  IF Len(longer) > MAX_TRADES THEN Slice(longer, MAX_TRADES) ELSE longer

\* The number of the trade that arrives next: one more than the number of
\* the latest trade in the feed.
NextTid == IF stateTrades = <<>> THEN 1 ELSE stateTrades[1].tid + 1

\* The records that can arrive next.
Arriving == {TradeRecord(c, NextTid) : c \in FeedCoins} \cup {Coinless(NextTid)}

\* addTrade(trade), which the onTrade listener calls for every record of a
\* trades message in the order of the array, or for the one record given.
AddTrade(trade) ==
    /\ trade.tid <= MAX_TRADES + MaxExtra
    /\ stateTrades' = AddTradeTo(stateTrades, trade)
    /\ fx' = <<>>
    /\ last' = Op("addTrade", trade.tid, trade)
    /\ UNCHANGED <<prog, desired, resumed, fills, pnlData, frame>>

FeedNext == \E trade \in Arriving : AddTrade(trade)

FeedSpec == Init /\ [][FeedNext]_vars

\* The numbers of a result: the totals and, for each asset, realizedPnl,
\* volume and trades.
SummaryOf(result) ==
    [totalRealizedPnl |-> result.totalRealizedPnl,
     totalVolume      |-> result.totalVolume,
     totalTrades      |-> result.totalTrades,
     byAsset          |-> [i \in 1 .. Len(result.byAsset) |->
                             [asset       |-> result.byAsset[i].asset,
                              realizedPnl |-> result.byAsset[i].realizedPnl,
                              volume      |-> result.byAsset[i].volume,
                              trades      |-> result.byAsset[i].trades]]]
\* The array with "0" for every px and sz in which parseFloat finds no number.
ZeroIfUnparseable(f) ==
    [i \in 1 .. Len(f) |->
        IF f[i][1] \in {"px", "sz"} /\ ParseFloat(f[i][2]) = NaN
        THEN <<f[i][1], Numeral(0)>> ELSE f[i]]
ZeroedFills == [n \in 1 .. Len(fills) |-> ZeroIfUnparseable(fills[n])]

\* C31: when px or sz of a fill is no number, the call returns all the same,
\* every number of its result is a number, and each is what the array gives
\* with 0 in the place of that field.
C31_UnparseableAsZero ==
    Returned =>
        /\ SummaryOf(pnlData) = SummaryOf(CalculatePNLFromFills(ZeroedFills))
        /\ pnlData.totalRealizedPnl # NaN
        /\ pnlData.totalVolume # NaN
        /\ \A i \in 1 .. Len(pnlData.byAsset) :
              /\ pnlData.byAsset[i].realizedPnl # NaN
              /\ pnlData.byAsset[i].volume # NaN

\* C32: a call leaves the array as it was, element for element, and writes
\* to nothing but its result: the manager and the trade feed are untouched;
\* and nothing is kept from one call for the next, which returns on the same
\* array what the call before it returned.
C32_NoSideEffect ==
    [][last'.op = "calculatePNLFromFills"
         => /\ fills' = fills
            /\ UNCHANGED <<prog, stateTrades, frame>>
            /\ last.op = "calculatePNLFromFills" => pnlData' = pnlData]_vars

\* Two calls have been made on a buy of 2 and a sell of 1: the lot of the
\* result has 1 left, and the buy of the array still says 2.
C32_LotShrunkFillIntact ==
    /\ Returned
    /\ last.again
    /\ fills = <<Fill("xyz:TSLA", "B", 20, 2), Fill("xyz:TSLA", "A", 15, 1)>>
    /\ EntryOf(pnlData, "xyz:TSLA").buys[1].size = 1
    /\ SizeOf(fills[1]) = 2

\* C33: the matching of an asset involves the fills of that asset only: its
\* realizedPnl and the lots it is left with are what the function gives on
\* the array's fills of that asset alone, in their order, whatever fills of
\* other assets the array holds and wherever they stand.
C33_PerAssetIsolation ==
    Returned =>
        \A asset \in AssetsOf(pnlData) :
            LET alone == CalculatePNLFromFills(FillsOf(asset))
            IN  /\ EntryOf(pnlData, asset).realizedPnl = RealizedOf(alone, asset)
                /\ EntryOf(pnlData, asset).buys = EntryOf(alone, asset).buys
                /\ alone.totalRealizedPnl = RealizedOf(alone, asset)

\* A sell of one asset stands between the buy and the sell of another: it
\* has met no lot, and the other asset's sell has met the buy.
C33_SellBetweenOtherAssets ==
    /\ Returned
    /\ fills = <<Fill("xyz:GOLD", "buy", 10, 1), Fill("xyz:TSLA", "A", 15, 1),
                 Fill("xyz:GOLD", "sell", 15, 1)>>
    /\ EntryOf(pnlData, "xyz:TSLA").realizedPnl = 0
    /\ EntryOf(pnlData, "xyz:GOLD").realizedPnl = 5
    /\ EntryOf(pnlData, "xyz:GOLD").buys[1].size = 0

\* C35: the realizedPnl of an asset is that of the array in which all its
\* buys stand before all its sells, each group in the order it has in the
\* array: so it is the same for all arrays that interleave the same buys and
\* the same sells in other ways, and a sell is matched with a buy that
\* follows it as it would be with one that precedes it.
C35_InterleavingIrrelevant ==
    Returned =>
        \A asset \in AssetsOf(pnlData) :
            LET buysFirst == CalculatePNLFromFills(SideOf(asset, TRUE)
                                                    \o SideOf(asset, FALSE))
            IN  /\ EntryOf(pnlData, asset).realizedPnl = RealizedOf(buysFirst, asset)
                /\ EntryOf(pnlData, asset).buys = EntryOf(buysFirst, asset).buys

\* A sell of 1 at 15 stands before the only buy, 1 at 10: they have been
\* matched, for 5.
C35_SellBeforeBuyMatched ==
    /\ Returned
    /\ fills = <<Fill("xyz:TSLA", "A", 15, 1), Fill("xyz:TSLA", "B", 10, 1)>>
    /\ MatchesOf("xyz:TSLA") = <<Matched(1, 1, 1)>>
    /\ EntryOf(pnlData, "xyz:TSLA").realizedPnl = 5

\* The sum of the sizes of the fills fs.
SizesOf(fs) == Sum([n \in 1 .. Len(fs) |-> SizeOf(fs[n])], Len(fs))

\* C36: for an asset whose fills all have positive sizes, the sizes matched
\* add up to the smaller of the sum of its buy sizes and the sum of its sell
\* sizes; no lot gives more than its size, and none ends below 0; no sell is
\* matched for more than its size.
C36_MatchedIsMinOfSums ==
    Returned =>
        \A asset \in AssetsOf(pnlData) :
            LET log   == MatchesOf(asset)
                buys  == SideOf(asset, TRUE)
                sells == SideOf(asset, FALSE)
            IN  (\A n \in 1 .. Len(FillsOf(asset)) : SizeOf(FillsOf(asset)[n]) > 0) =>
                    /\ Sum([m \in 1 .. Len(log) |-> log[m].matchSize], Len(log)) =
                          (IF SizesOf(buys) < SizesOf(sells) THEN SizesOf(buys)
                           ELSE SizesOf(sells))
                    /\ \A j \in 1 .. Len(buys) :
                          /\ AllTakenFrom(log, j) <= SizeOf(buys[j])
                          /\ EntryOf(pnlData, asset).buys[j].size >= 0
                    /\ \A k \in 1 .. Len(sells) :
                          AllTakenFor(log, k) <= SizeOf(sells[k])

\* C34: a call that has been entered returns, zero and negative sizes in the
\* array or not; every run of the body of the while loop takes the front lot
\* off the queue or leaves nothing of the sell; and what the call returns is
\* the result of the function.
C34_Terminates ==
    /\ [](frame.pc # "idle" => <>(frame.pc = "idle" /\ Returned))
    /\ [][last'.op = "iterate" =>
             \/ Len(frame'.st.queue) < Len(frame.st.queue)
             \/ frame'.remaining = 0]_vars
    /\ [](Returned => pnlData = CalculatePNLFromFills(fills))

\* C37: getStatus() returns true exactly when the transport the manager
\* holds now is open, whatever calls of connect() and disconnect() and
\* whatever open and close events, of the transport held or of one given
\* up, have come before.
C37_StatusIsCurrentOpen == getStatus <=> (ws # NULL /\ readyState[ws] = "OPEN")

\* C38: reconnectAttempts is at least 0 and at most maxReconnectAttempts in
\* every state; a close event met with attempts remaining adds one to it, an
\* open event puts it back to 0, and no other step changes it.
C38_AttemptsWithinBudget ==
    /\ [](0 <= reconnectAttempts /\ reconnectAttempts <= maxReconnectAttempts)
    /\ [][reconnectAttempts' =
               IF last'.op = "open" THEN 0
               ELSE IF last'.op = "close" /\ reconnectAttempts < maxReconnectAttempts
                    THEN reconnectAttempts + 1
                    ELSE reconnectAttempts]_vars

\* The close event that brings the counter to maxReconnectAttempts: the last
\* reconnection is scheduled by it.
C38_LastAttemptCounted ==
    /\ last.op = "close"
    /\ reconnectAttempts = maxReconnectAttempts
    /\ Scheduled(fx)

\* C39: every close event of a transport calls each onDisconnect listener
\* once and no other listener, whether the transport had opened, was still
\* connecting, or was being closed by disconnect(); disconnect() itself
\* calls none.
C39_CloseNotifiesOnce ==
    [][/\ last'.op = "close" =>
            /\ \A i \in 1 .. Len(callbacks.onDisconnect) :
                   Len(CallsTo(fx', "onDisconnect", callbacks.onDisconnect[i])) = 1
            /\ Len(Calls(fx')) = Len(callbacks.onDisconnect)
       /\ last'.op = "disconnect" => Calls(fx') = <<>>]_vars

\* A transport that never opened has closed; the onDisconnect listener has
\* been called although an onConnect listener is registered too and the
\* manager was not connected.
C39_ClosedBeforeOpening ==
    /\ last.op = "close"
    /\ last.s = WasState("CONNECTING")
    /\ callbacks.onConnect = <<1>>
    /\ callbacks.onDisconnect = <<2>>
    /\ Calls(fx) = <<CallFx("onDisconnect", 2)>>

\* The record's coin begins with the four characters x y z :
IsXyzTrade(t) ==
    /\ "coin" \in DOMAIN t
    /\ Len(t.coin) >= 4
    /\ t.coin[1] = "x" /\ t.coin[2] = "y" /\ t.coin[3] = "z" /\ t.coin[4] = ":"

\* C40: state.trades holds no more than MAX_TRADES records, all of them xyz
\* trades, a later one before an earlier one; a call of addTrade with an xyz
\* trade puts it at the front, keeps the records held in their order and
\* drops the last when there would be more than MAX_TRADES; a call with a
\* record of another namespace or without a coin leaves state.trades as it
\* is.  So the records held are the xyz trades received last.
C40_FeedIsLatestXyzTrades ==
    /\ [](/\ Len(stateTrades) <= MAX_TRADES
          /\ \A i \in 1 .. Len(stateTrades) : IsXyzTrade(stateTrades[i])
          /\ \A i \in 2 .. Len(stateTrades) :
                 stateTrades[i - 1].tid > stateTrades[i].tid)
    /\ [][last'.op = "addTrade" =>
             IF IsXyzTrade(last'.s)
             THEN /\ Len(stateTrades') =
                        IF Len(stateTrades) < MAX_TRADES
                        THEN Len(stateTrades) + 1 ELSE MAX_TRADES
                  /\ stateTrades'[1] = last'.s
                  /\ \A i \in 2 .. Len(stateTrades') :
                         stateTrades'[i] = stateTrades[i - 1]
             ELSE stateTrades' = stateTrades]_vars

\* The feed is full, the first xyz trade has left it, and a record of
\* another namespace has just been turned away.
C40_FeedFullAndOldestGone ==
    /\ last.op = "addTrade"
    /\ ~IsXyzTrade(last.s)
    /\ "coin" \in DOMAIN last.s
    /\ Len(stateTrades) = MAX_TRADES
    /\ stateTrades[MAX_TRADES].tid = 2
    /\ stateTrades[1].tid = MAX_TRADES + 1

====
